---------------------------- MODULE Spec2Model ----------------------------
(*
 * Verification model of the game server in src/: the GameWorld simulation
 * loop (src/core/game.py), the ECS World shim (esper/__init__.py), the
 * resource production and building construction systems (src/systems/),
 * the in-memory marketplace with escrow (src/core/game.py) and the request
 * handlers of src/api/routes.py that touch the same state.
 *
 * Two threads are modelled: "sim" is the daemon thread running
 * GameWorld._game_loop, "req" is the asyncio event-loop thread on which the
 * FastAPI route handlers run. Spec and SpecDb count time in whole hours;
 * every other specification counts it in seconds.
 *
 * Entities carry the default Research (all levels 0) and Planet
 * (temperature 25, size 163) components, so plasma/energy bonuses and the
 * planet multipliers of the production formula are the neutral 1.0.
 *
 * Spec   is a process without a database: the game loop, the request
 *        handlers and the marketplace, interleaved at the points where the
 *        two threads can preempt each other.
 * SpecDb is the event loop of a process started on a database that already
 *        holds offers: the id reconciliation task and the marketplace routes.
 * SpecCmd is the simulation thread alone: registration, the build, demolish,
 *        cancel, research and build_ships commands executed one at a time,
 *        and whole World.process() passes over the construction, research,
 *        shipyard, production and fleet movement systems.
 * SpecFlight is a process with a database: fleet dispatch and recall, the
 *        arrival of movements, the periodic save of planets, the reload
 *        of a player from the stored rows, and the stop and start of the
 *        server process.
 * SpecRecall is the dispatch and recall routes with their responses.
 * SpecAccrual is the offline accrual beside the online production tick.
 * SpecYard is the shipyard of a process with a database: build_ships, the
 *        ticks, the saves, and the stop and start of the server process.
 * SpecPlanets is the planets table: registration, the choice of a starting
 *        planet, the colonize command, the missions and the saves.
 *
 * The database is held as the rows the handlers read back: db_planet is
 * the first planet row of each user (the one a load reads), db_planets the
 * owner and coordinates of every planet row, db_fleet and db_ship_queue the
 * fleets row and the pending ship_build_queue rows of the first planet,
 * db_mission the fleet_missions row of each user.
 * SpecShip is the build_ships handler executed by both threads, split at
 *        the points where it reads the fleet, reads the queue and appends.
 *
 * The marketplace handlers contain no await and run to completion on the
 * event-loop thread, so each is one step; the production system is split
 * between its balance snapshot and its write-back, where the other thread
 * can run.
 *)
EXTENDS Integers, Sequences, FiniteSets, TLC

\* ------------------------------------------------------------------ bounds
MaxTime == 1
MaxRequests == 3

\* --------------------------------------------------------------- constants
Users == {10, 20}
EntityOrder == <<10, 20>>
Threads == {"sim", "req"}
ResourceNames == {"metal", "crystal", "deuterium"}
NoResponse == [route |-> "none", status |-> 0, offer_id |-> 0]
NoCmd == [id |-> 0, type |-> "none", user_id |-> 0]

ProcessorsConstructionFirst ==
    << "BuildingConstructionSystem", "ResourceProductionSystem",
       "PlayerActivitySystem", "ResearchSystem", "ShipyardSystem",
       "FleetMovementSystem", "BattleSystem" >>

Processors ==
    << "ResourceProductionSystem", "BuildingConstructionSystem",
       "PlayerActivitySystem", "ResearchSystem", "ShipyardSystem",
       "FleetMovementSystem", "BattleSystem" >>

ENERGY_SOLAR_BASE == 20
FUSION_ENERGY_BASE == 30
FUSION_DEUTERIUM_CONSUMPTION_PER_LEVEL == 5
ENERGY_CONSUMPTION ==
    [metal_mine |-> 3, crystal_mine |-> 2, deuterium_synthesizer |-> 2]
SoftFloorDen == 4
STORAGE_BASE_CAPACITY ==
    [metal |-> 100000, crystal |-> 75000, deuterium |-> 50000]
STORAGE_CAPACITY_GROWTH == 2
FeeDen == 4
NoTime == -1

VARIABLES
    now,                \* wall clock (utc_now), hours
    resources,          \* Resources component per player entity
    production,         \* ResourceProduction component per player entity
    buildings,          \* Buildings component per player entity
    build_queue,        \* BuildQueue.items per player entity
    last_active,        \* Player.last_active per player entity
    command_queue,      \* GameWorld.command_queue
    market_offers,      \* GameWorld._market_offers
    next_offer_id,      \* GameWorld._next_offer_id
    trade_history,      \* GameWorld._trade_history
    next_trade_event_id,\* GameWorld._next_trade_event_id
    fee_rate,           \* TRADE_TRANSACTION_FEE_RATE, in units of 1/FeeDen
    pc,                 \* per thread: position in its code
    local,              \* per thread: local variables of the running call
    http,               \* last response of the request thread
    requests,           \* number of requests served so far
    next_cmd_id,        \* history: sequence number of the next queued command
    executed,           \* history: command ids in the order they were executed
    ledger,             \* history: balance each player would hold with no open offer
    db_enabled,         \* is_db_enabled()
    require_start_choice, \* config.REQUIRE_START_CHOICE
    db_offers,          \* rows of the trade_offers table
    db_event_max,       \* highest id in the trade_events table
    hydration,          \* progress of the _hydrate_ids_and_set task
    hydrate_max,        \* max_offer / max_event as read by that task
    issued,             \* history: offer ids handed out since process start
    db_initial_ids,     \* history: offer ids already in the database at process start
    entities,           \* user ids that own an entity of the World
    research,           \* Research component per player entity
    research_queue,     \* ResearchQueue.items per player entity
    ship_queue,         \* ShipBuildQueue.items per player entity
    fleet,              \* Fleet component per player entity
    position,           \* Position component per player entity
    movements,          \* FleetMovement components attached per entity, in list order
    db_planet,          \* row of the planets table per user
    last_persist,       \* sync._last_persist: time of the last planet write per user and coordinates
    db_planets,         \* owner and coordinates of every row of the planets table
    db_ship_queue,      \* rows of ship_build_queue with completed_at NULL per user, by id
    db_fleet,           \* row of the fleets table of each user's first planet
    db_mission,         \* row of the fleet_missions table per user
    ws_sent,            \* history: ship_build_complete_batch messages of the last pass
    completions,        \* history: queue items removed as completed, in order
    next_seq,           \* history: sequence number of the next accepted submission
    battles,            \* Battle component per battle entity
    battle_reports,     \* GameWorld._battle_reports, in order of arrival
    db_build_queue,     \* rows of the building_queue table per user, by id
    cancelled,          \* history: build-queue submissions removed by a cancel
    running,            \* GameWorld.running
    run_pc,             \* per thread: position in _game_loop, stop_game_loop, save_player_data
    ticks,              \* history: number of ticks the loop has started
    iter,               \* per thread: size of World._entities when its iterator was created
    save_lock,          \* GameWorld._save_lock: "free" or the thread holding it
    last_save_ts,       \* GameWorld._last_save_ts
    last_cleanup_day,   \* GameWorld._last_cleanup_day
    persistence_loop,   \* sync._persistence_loop: "none", "running" or "closed"
    bridge,             \* history: the last call of _submit or _submit_and_wait
    save_log            \* history: calls of save_player_data that returned, in order

vars == << now, resources, production, buildings, build_queue,
           last_active, command_queue, market_offers, next_offer_id,
           trade_history, next_trade_event_id, fee_rate, pc, local, http,
           requests, next_cmd_id, executed, ledger, db_enabled, require_start_choice, db_offers,
           db_event_max, hydration, hydrate_max, issued, db_initial_ids,
           entities, research, research_queue, ship_queue, fleet, position,
           movements, db_planet, last_persist, db_planets, db_ship_queue, db_fleet,
           db_mission,
           ws_sent, completions, next_seq, battles, battle_reports,
           db_build_queue, cancelled, running, run_pc, ticks, iter, save_lock,
           last_save_ts, last_cleanup_day, persistence_loop, bridge, save_log >>

battleVars == << battles, battle_reports >>
queueVars == << db_build_queue, cancelled >>
runVars == << running, run_pc, ticks, iter, save_lock, last_save_ts, last_cleanup_day,
             persistence_loop, bridge, save_log >>
loopVars == << battleVars, queueVars, runVars >>
coreDbVars == << db_enabled, require_start_choice, db_offers, db_event_max, hydration,
                 hydrate_max, db_initial_ids >>
dbVars == << coreDbVars, loopVars >>
worldVars == << resources, production, buildings, build_queue, last_active >>
marketVars == << market_offers, next_offer_id, trade_history, next_trade_event_id, fee_rate >>
shipVars == << research, research_queue, ship_queue, fleet >>
flightVars == << position, movements, db_mission >>
histVars == << ws_sent, completions, next_seq >>
planetVars == << db_planet, last_persist, db_planets, db_ship_queue, db_fleet >>
cmdVars == << entities, shipVars, flightVars, planetVars, histVars >>

\* ------------------------------------------------------------ arithmetic
Max(a, b) == IF a >= b THEN a ELSE b
Min(a, b) == IF a <= b THEN a ELSE b

RECURSIVE Pow(_, _)
Pow(b, e) == IF e <= 0 THEN 1 ELSE b * Pow(b, e - 1)

\* Python round() on the non-negative rational n/d: nearest, ties to even.
RoundHalfEven(n, d) ==
    LET q == n \div d
        r == n % d
    IN  IF 2 * r < d THEN q
        ELSE IF 2 * r > d THEN q + 1
        ELSE IF q % 2 = 0 THEN q ELSE q + 1

\* ------------------------------------------------- resource production
\* max(0, int(getattr(buildings, name, 0)))
Level(b, name) == IF name \in DOMAIN b THEN Max(0, b[name]) ELSE 0

EnergyProduced(b) ==
    ENERGY_SOLAR_BASE * Level(b, "solar_plant")
        + FUSION_ENERGY_BASE * Level(b, "fusion_reactor")

EnergyRequired(b) ==
    ENERGY_CONSUMPTION.metal_mine * Level(b, "metal_mine")
        + ENERGY_CONSUMPTION.crystal_mine * Level(b, "crystal_mine")
        + ENERGY_CONSUMPTION.deuterium_synthesizer * Level(b, "deuterium_synthesizer")

\* energy factor as a fraction <<numerator, denominator>>
EnergyFactor(b) ==
    LET p == EnergyProduced(b)
        r == EnergyRequired(b)
    IN  IF r <= 0 THEN <<1, 1>>
        ELSE IF p <= 0 THEN <<0, 1>>
        ELSE IF p >= r THEN <<1, 1>>
        ELSE IF SoftFloorDen * p <= r THEN <<1, SoftFloorDen>>
        ELSE <<p, r>>

\* int(round(base * 1.1 ** level * time_diff * factor))
RawProduction(rate, level, time_diff, f) ==
    RoundHalfEven(rate * Pow(11, level) * time_diff * f[1], Pow(10, level) * f[2])

Capacity(res, storage_level) ==
    STORAGE_BASE_CAPACITY[res] * Pow(STORAGE_CAPACITY_GROWTH, storage_level)

ClampedAdd(raw, cap, before) == Max(0, Min(raw, Max(0, cap - before)))

\* The amounts one entity is credited for time_diff hours, from the balances
\* `before` read at that moment and the building levels b.
ProductionAdd(rates, b, before, time_diff) ==
    LET f == EnergyFactor(b)
    IN  [metal |->
            ClampedAdd(RawProduction(rates.metal_rate, Level(b, "metal_mine"), time_diff, f),
                       Capacity("metal", Level(b, "metal_storage")), before.metal),
         crystal |->
            ClampedAdd(RawProduction(rates.crystal_rate, Level(b, "crystal_mine"), time_diff, f),
                       Capacity("crystal", Level(b, "crystal_storage")), before.crystal),
         deuterium |->
            ClampedAdd(RawProduction(rates.deuterium_rate, Level(b, "deuterium_synthesizer"), time_diff, f),
                       Capacity("deuterium", Level(b, "deuterium_tank")), before.deuterium)]

FusionConsumption(b, time_diff) ==
    RoundHalfEven(FUSION_DEUTERIUM_CONSUMPTION_PER_LEVEL * Level(b, "fusion_reactor") * time_diff, 1)

\* -------------------------------------------------------------- initial state
ZeroAmounts == [metal |-> 0, crystal |-> 0, deuterium |-> 0]

InitResources ==
    [u \in Users |->
        [metal |-> 1000, crystal |-> IF u = 10 THEN 1000 ELSE 40, deuterium |-> 1000]]

InitBuildings ==
    [u \in Users |->
        [metal_mine |-> 1, crystal_mine |-> 1, deuterium_synthesizer |-> 1,
         solar_plant |-> 1, robot_factory |-> 0, shipyard |-> 0]]

InitLocal ==
    [sys |-> 0, ent |-> 0, current_time |-> 0, time_diff |-> 0,
     before |-> ZeroAmounts, add |-> ZeroAmounts, cons_d |-> 0,
     command |-> NoCmd, passes |-> 0,
     mark |-> 0, touched |-> FALSE, credited |-> {}, gained |-> {}]

ShipTypes ==
    {"light_fighter", "heavy_fighter", "cruiser", "battleship", "bomber", "colony_ship"}
ResearchTypes == {"energy", "laser", "ion", "hyperspace", "plasma", "computer"}

\* Fleet(), Research() and Position() as the dataclasses construct them
NewFleet == [s \in ShipTypes |-> 0]
NewResearch == [r \in ResearchTypes |-> 0]
NewPosition == [galaxy |-> 1, system |-> 1, planet |-> 1]

NoPlanetRow ==
    [present |-> FALSE, coords |-> NewPosition, resources |-> ZeroAmounts,
     last_update |-> 0]
\* the rows a write finds through the entity's coordinates are those of the
\* owner's first planet while the entity is there
AtFirstPlanet(row, coords) == row.present /\ row.coords = coords

\* owner and coordinates of a row of the planets table
PlanetAt(owner_id, coords) == [owner_id |-> owner_id, coords |-> coords]
\* sync._ensure_user_and_planet_in_session: the row of the owner at these
\* coordinates is created when the owner has none there
EnsurePlanet(rows, owner_id, coords) == rows \cup {PlanetAt(owner_id, coords)}
NoMission ==
    [present |-> FALSE, origin |-> NewPosition, target |-> NewPosition,
     departure_time |-> 0, arrival_time |-> 0, mission |-> "transfer",
     recalled |-> FALSE]

\* components and tables the marketplace and the production pass never touch
InitComponents ==
    /\ research = [u \in Users |-> NewResearch]
    /\ research_queue = [u \in Users |-> << >>]
    /\ ship_queue = [u \in Users |-> << >>]
    /\ fleet = [u \in Users |-> NewFleet]
    /\ position = [u \in Users |-> NewPosition]
    /\ movements = [u \in Users |-> << >>]
    /\ db_planet = [u \in Users |-> NoPlanetRow]
    /\ last_persist = {}
    /\ db_planets = {}
    /\ db_ship_queue = [u \in Users |-> << >>]
    /\ db_fleet = [u \in Users |-> NewFleet]
    /\ db_mission = [u \in Users |-> NoMission]
    /\ ws_sent = [u \in Users |-> 0]
    /\ completions = << >>
    /\ next_seq = 1

LoopThreads == {"sim", "main", "req"}
SAVE_INTERVAL_SECONDS == 60
\* time.time() of the epoch, seen from the start of the process
EpochTs == 0 - SAVE_INTERVAL_SECONDS
\* _last_cleanup_day is None until the cleanup job has run on a day
NoDay == "none"
NoBridgeCall ==
    [kind |-> "none", thread |-> "none", loop |-> "none", scheduled |-> FALSE,
     result |-> "default", waited |-> 0, raised |-> FALSE]

\* GameWorld.__init__: the loop is not running and no save is in flight
InitRunVars ==
    /\ running = FALSE
    /\ run_pc = [t \in LoopThreads |-> IF t = "sim" THEN "none" ELSE "idle"]
    /\ ticks = 0
    /\ iter = [t \in LoopThreads |-> 0]
    /\ save_lock = "free"
    /\ last_save_ts = EpochTs
    /\ last_cleanup_day = NoDay
    /\ bridge = NoBridgeCall
    /\ save_log = << >>

\* a World without Battle entities and an empty report store, the event loop
\* captured for persistence
InitLoop ==
    /\ battles = << >>
    /\ battle_reports = << >>
    /\ db_build_queue = [u \in Users |-> << >>]
    /\ cancelled = {}
    /\ InitRunVars
    /\ persistence_loop = "running"

InitWorld ==
    /\ now = 0
    /\ resources = InitResources
    /\ production = [u \in Users |->
                        [metal_rate |-> 10, crystal_rate |-> 0, deuterium_rate |-> 0,
                         last_update |-> 0]]
    /\ buildings = InitBuildings
    /\ build_queue = [u \in Users |->
                        IF u = 10 THEN << [type |-> "metal_mine", completion_time |-> 1] >>
                        ELSE << >>]
    /\ last_active = [u \in Users |-> 0]
    /\ command_queue = << >>
    /\ market_offers = << >>
    /\ next_offer_id = 1
    /\ trade_history = << >>
    /\ next_trade_event_id = 1
    /\ pc = [t \in Threads |-> "idle"]
    /\ local = [t \in Threads |-> InitLocal]
    /\ http = NoResponse
    /\ requests = 0
    /\ next_cmd_id = 1
    /\ executed = << >>
    /\ ledger = InitResources
    /\ entities = Users
    /\ InitComponents

\* fee rates 0.0 (the default) and 0.25
FeeRates == {0, 1}

NoMax == [offer |-> 0, event |-> 0]

\* a process without a database (ENABLE_DB unset)
Init ==
    /\ InitWorld
    /\ fee_rate \in FeeRates
    /\ db_enabled = FALSE
    /\ require_start_choice = FALSE
    /\ InitLoop
    /\ db_offers = {}
    /\ db_event_max = 0
    /\ hydration = "none"
    /\ hydrate_max = NoMax
    /\ issued = << >>
    /\ db_initial_ids = {}

\* ------------------------------------------------------------------ clock
AdvanceClock ==
    /\ now < MaxTime
    /\ now' = now + 1
    /\ UNCHANGED << cmdVars, dbVars, issued, worldVars, command_queue, marketVars, pc, local, http,
                    requests, next_cmd_id, executed, ledger >>

\* ------------------------------------------------------- game loop, drain
\* GameWorld._game_loop: one iteration starts with _process_commands().
GameLoopIteration ==
    /\ pc["sim"] = "idle"
    /\ pc' = [pc EXCEPT !["sim"] = "drain"]
    /\ local' = [local EXCEPT !["sim"] = [InitLocal EXCEPT !.mark = next_cmd_id]]
    /\ UNCHANGED << cmdVars, dbVars, issued, now, worldVars, command_queue, marketVars, http, requests,
                    next_cmd_id, executed, ledger >>

\* _process_commands: command = self.command_queue.get_nowait()
Dequeue(t) ==
    /\ pc[t] = "drain"
    /\ command_queue # << >>
    /\ local' = [local EXCEPT ![t].command = Head(command_queue)]
    /\ command_queue' = Tail(command_queue)
    /\ pc' = [pc EXCEPT ![t] = "exec"]
    /\ UNCHANGED << cmdVars, dbVars, issued, now, worldVars, marketVars, http, requests, next_cmd_id,
                    executed, ledger >>

\* _execute_command -> _handle_update_activity
ExecuteCommand(t) ==
    /\ pc[t] = "exec"
    /\ LET c == local[t].command
       IN  /\ last_active' = IF c.type = "update_player_activity" /\ c.user_id \in Users
                             THEN [last_active EXCEPT ![c.user_id] = now]
                             ELSE last_active
           /\ executed' = Append(executed, c.id)
    /\ local' = [local EXCEPT ![t].command = NoCmd]
    /\ pc' = [pc EXCEPT ![t] = "drain"]
    /\ UNCHANGED << cmdVars, dbVars, issued, now, resources, production, buildings, build_queue,
                    command_queue, marketVars, http, requests, next_cmd_id, ledger >>

\* The queue is empty: _process_commands returns and world.process() begins.
WorldProcessBegin(t) ==
    /\ pc[t] = "drain"
    /\ command_queue = << >>
    /\ pc' = [pc EXCEPT ![t] = "process"]
    /\ local' = [local EXCEPT ![t].sys = 1, ![t].ent = 1]
    /\ UNCHANGED << cmdVars, dbVars, issued, now, worldVars, command_queue, marketVars, http, requests,
                    next_cmd_id, executed, ledger >>

\* ------------------------------------------------------- World.process
\* Position of thread t after the processor at index l.sys has returned.
AfterProcessor(l) ==
    IF l.sys < Len(Processors)
    THEN [pc |-> "process", local |-> [l EXCEPT !.sys = @ + 1, !.ent = 1]]
    ELSE IF l.passes > 0
    THEN [pc |-> "process",
          local |-> [l EXCEPT !.sys = 1, !.ent = 1, !.passes = @ - 1,
                              !.credited = {}, !.gained = {}]]
    ELSE [pc |-> "idle", local |-> InitLocal]

\* Position after the production system has finished the entity at l.ent.
AfterEntity(l) ==
    IF l.ent < Len(EntityOrder)
    THEN [pc |-> "process", local |-> [l EXCEPT !.ent = @ + 1]]
    ELSE AfterProcessor(l)

\* ResourceProductionSystem.process, one entity, up to the balance snapshot.
ProdRead(t) ==
    /\ pc[t] = "process"
    /\ Processors[local[t].sys] = "ResourceProductionSystem"
    /\ LET l == local[t]
           e == EntityOrder[l.ent]
           ct == IF l.ent = 1 THEN now ELSE l.current_time
           td == ct - production[e].last_update
           lr == [l EXCEPT !.current_time = ct, !.time_diff = td,
                           !.before = resources[e],
                           !.add = ProductionAdd(production[e], buildings[e], resources[e], td),
                           !.cons_d = FusionConsumption(buildings[e], td),
                           !.touched = FALSE,
                           !.credited = @ \cup {e}]
           nx == AfterEntity([l EXCEPT !.current_time = ct])
       IN  IF td > 0
           THEN /\ pc' = [pc EXCEPT ![t] = "prod_write"]
                /\ local' = [local EXCEPT ![t] = lr]
           ELSE /\ pc' = [pc EXCEPT ![t] = nx.pc]
                /\ local' = [local EXCEPT ![t] = nx.local]
    /\ UNCHANGED << cmdVars, dbVars, issued, now, worldVars, command_queue, marketVars, http, requests,
                    next_cmd_id, executed, ledger >>

\* ResourceProductionSystem.process, same entity, the write-back.
ProdWrite(t) ==
    /\ pc[t] = "prod_write"
    /\ LET l == local[t]
           e == EntityOrder[l.ent]
           a == l.add
           r1 == IF a.metal # 0 \/ a.crystal # 0 \/ a.deuterium # 0
                 THEN [r \in ResourceNames |-> l.before[r] + a[r]]
                 ELSE resources[e]
           r2 == IF l.cons_d > 0
                 THEN [r1 EXCEPT !.deuterium = Max(0, r1.deuterium - l.cons_d)]
                 ELSE r1
           nx == AfterEntity([l EXCEPT !.before = ZeroAmounts, !.add = ZeroAmounts,
                                       !.cons_d = 0, !.time_diff = 0,
                                       !.touched = FALSE])
       IN  /\ resources' = [resources EXCEPT ![e] = r2]
           /\ production' = [production EXCEPT ![e].last_update = l.current_time]
           /\ ledger' = [ledger EXCEPT ![e] =
                            [r \in ResourceNames |-> @[r] + a[r] - (r1[r] - r2[r])]]
           /\ pc' = [pc EXCEPT ![t] = nx.pc]
           /\ local' = [local EXCEPT ![t] = nx.local]
    /\ UNCHANGED << cmdVars, dbVars, issued, now, buildings, build_queue, last_active, command_queue,
                    marketVars, http, requests, next_cmd_id, executed >>

\* BuildingConstructionSystem.process for one entity: the new Buildings
\* component, BuildQueue.items and whether a level was gained.
CompleteHead(b, q, current_time) ==
    IF q = << >> THEN [buildings |-> b, items |-> q, gained |-> FALSE]
    ELSE LET current_build == Head(q)
             ct == current_build.completion_time
         IN  IF ct = NoTime
             THEN [buildings |-> b, items |-> Tail(q), gained |-> FALSE]
             ELSE IF current_time >= ct
             THEN IF current_build.type \in DOMAIN b
                  THEN [buildings |-> [b EXCEPT ![current_build.type] = @ + 1],
                        items |-> Tail(q), gained |-> TRUE]
                  ELSE [buildings |-> b, items |-> Tail(q), gained |-> FALSE]
             ELSE [buildings |-> b, items |-> q, gained |-> FALSE]

BuildingConstruction(t) ==
    /\ pc[t] = "process"
    /\ Processors[local[t].sys] = "BuildingConstructionSystem"
    /\ LET done == [e \in Users |-> CompleteHead(buildings[e], build_queue[e], now)]
           l == [local[t] EXCEPT !.gained = @ \cup {e \in Users : done[e].gained}]
           nx == AfterProcessor(l)
       IN  /\ buildings' = [e \in Users |-> done[e].buildings]
           /\ build_queue' = [e \in Users |-> done[e].items]
           /\ pc' = [pc EXCEPT ![t] = nx.pc]
           /\ local' = [local EXCEPT ![t] = nx.local]
    /\ UNCHANGED << cmdVars, dbVars, issued, now, resources, production, last_active, command_queue,
                    marketVars, http, requests, next_cmd_id, executed, ledger >>

\* The remaining processors act on components that carry no state here.
OtherProcessor(t) ==
    /\ pc[t] = "process"
    /\ Processors[local[t].sys] \notin
           {"ResourceProductionSystem", "BuildingConstructionSystem"}
    /\ LET nx == AfterProcessor(local[t])
       IN  /\ pc' = [pc EXCEPT ![t] = nx.pc]
           /\ local' = [local EXCEPT ![t] = nx.local]
    /\ UNCHANGED << cmdVars, dbVars, issued, now, worldVars, command_queue, marketVars, http, requests,
                    next_cmd_id, executed, ledger >>

\* ---------------------------------------------------------- request handlers
\* GET /player/{user_id}/fleet: _process_commands(), then world.process() twice.
GetPlayerFleet ==
    /\ pc["req"] = "idle"
    /\ requests < MaxRequests
    /\ requests' = requests + 1
    /\ http' = [route |-> "get_player_fleet", status |-> 200, offer_id |-> 0]
    /\ pc' = [pc EXCEPT !["req"] = "drain"]
    /\ local' = [local EXCEPT !["req"] =
                    [InitLocal EXCEPT !.passes = 1, !.mark = next_cmd_id]]
    /\ UNCHANGED << cmdVars, dbVars, issued, now, worldVars, command_queue, marketVars, next_cmd_id,
                    executed, ledger >>

\* ---------------------------------------------------------------- marketplace
Lower(s) ==
    CASE s = "METAL" -> "metal"
      [] s = "CRYSTAL" -> "crystal"
      [] s = "DEUTERIUM" -> "deuterium"
      [] OTHER -> s

\* offer ids a client may name in POST /trade/accept/{offer_id}
OfferIds == 1..MaxRequests

OfferInputs ==
    { [offered_resource |-> "METAL", offered_amount |-> 100,
       requested_resource |-> "crystal", requested_amount |-> 50],
      [offered_resource |-> "gold", offered_amount |-> 100,
       requested_resource |-> "crystal", requested_amount |-> 50],
      [offered_resource |-> "metal", offered_amount |-> 0,
       requested_resource |-> "crystal", requested_amount |-> 50],
      [offered_resource |-> "metal", offered_amount |-> 5000,
       requested_resource |-> "crystal", requested_amount |-> 50] }

CreateAcceptedWithoutBalanceCheck(user_id, in) ==
    /\ Lower(in.offered_resource) \in ResourceNames
    /\ Lower(in.requested_resource) \in ResourceNames
    /\ in.offered_amount > 0
    /\ in.requested_amount > 0
    /\ user_id \in Users

\* _handle_trade_create_offer returns an id (not None)
CreateAccepted(user_id, in) ==
    /\ Lower(in.offered_resource) \in ResourceNames
    /\ Lower(in.requested_resource) \in ResourceNames
    /\ in.offered_amount > 0
    /\ in.requested_amount > 0
    /\ user_id \in Users
    /\ resources[user_id][Lower(in.offered_resource)] >= in.offered_amount

\* history: a balance of user u was written while a production pass holds a
\* snapshot of it
Touch(l, p, us) ==
    [t \in Threads |->
        IF p[t] = "prod_write" /\ EntityOrder[l[t].ent] \in us
        THEN [l[t] EXCEPT !.touched = TRUE]
        ELSE l[t]]

\* GameWorld._record_trade_event: nothing in memory when the database is
\* enabled, else record_trade_event_sync
RecordTradeEvent(type, offer_id, seller, buyer) ==
    IF db_enabled
    THEN UNCHANGED << trade_history, next_trade_event_id >>
    ELSE /\ trade_history' = Append(trade_history,
                [id |-> next_trade_event_id, type |-> type, offer_id |-> offer_id,
                 seller_user_id |-> seller, buyer_user_id |-> buyer])
         /\ next_trade_event_id' = next_trade_event_id + 1

\* _handle_trade_create_offer, successful path
HandleTradeCreateOffer(user_id, in) ==
    LET offered_resource == Lower(in.offered_resource)
        oid == next_offer_id
    IN  /\ resources' = [resources EXCEPT ![user_id][offered_resource] =
                            @ - in.offered_amount]
        /\ next_offer_id' = next_offer_id + 1
        /\ market_offers' = Append(market_offers,
                [id |-> oid, seller_user_id |-> user_id,
                 offered_resource |-> offered_resource,
                 offered_amount |-> in.offered_amount,
                 requested_resource |-> Lower(in.requested_resource),
                 requested_amount |-> in.requested_amount,
                 status |-> "open", accepted_by |-> 0])
        /\ RecordTradeEvent("offer_created", oid, user_id, 0)
        /\ issued' = Append(issued, oid)

\* queue_command
QueueCommand(type, user_id) ==
    /\ command_queue' = Append(command_queue,
            [id |-> next_cmd_id, type |-> type, user_id |-> user_id])
    /\ next_cmd_id' = next_cmd_id + 1

DbOfferIds == {o.id : o \in db_offers}

\* POST /trade/offers; db_ok: the INSERT and commit go through (any error,
\* a duplicate primary key included, is swallowed by the handler)
CreateTradeOffer(user_id, in, db_ok) ==
    /\ pc["req"] = "idle"
    /\ requests < MaxRequests
    /\ requests' = requests + 1
    /\ IF CreateAccepted(user_id, in)
       THEN /\ HandleTradeCreateOffer(user_id, in)
            /\ QueueCommand("update_player_activity", user_id)
            /\ local' = Touch(local, pc, {user_id})
            /\ http' = [route |-> "create_trade_offer", status |-> 200,
                        offer_id |-> next_offer_id]
            /\ IF db_enabled /\ db_ok /\ next_offer_id \notin DbOfferIds
               THEN /\ db_offers' = db_offers \cup
                        {[id |-> next_offer_id, seller_user_id |-> user_id,
                          offered_resource |-> in.offered_resource,
                          offered_amount |-> in.offered_amount,
                          requested_resource |-> in.requested_resource,
                          requested_amount |-> in.requested_amount,
                          status |-> "open", accepted_by |-> 0]}
                    /\ db_event_max' = db_event_max + 1
               ELSE UNCHANGED << db_offers, db_event_max >>
       ELSE /\ http' = [route |-> "create_trade_offer", status |-> 400, offer_id |-> 0]
            /\ UNCHANGED << resources, market_offers, next_offer_id, trade_history,
                            next_trade_event_id, command_queue, next_cmd_id, local,
                            issued, db_offers, db_event_max >>
    /\ UNCHANGED << cmdVars, now, production, buildings, build_queue, last_active,
                    fee_rate, pc, executed, ledger, db_enabled, require_start_choice, loopVars, hydration,
                    hydrate_max, db_initial_ids >>

\* the first offer in _market_offers with the given id, as an index (0: none)
FindOffer(offer_id) ==
    LET hits == {i \in 1..Len(market_offers) : market_offers[i].id = offer_id}
    IN  IF hits = {} THEN 0 ELSE CHOOSE i \in hits : \A j \in hits : i <= j

\* int(requested_amount * fee_rate), clamped to 0..requested_amount
FeeAmount(requested_amount) ==
    LET fee == IF fee_rate > 0 THEN (requested_amount * fee_rate) \div FeeDen ELSE 0
    IN  Max(0, Min(fee, requested_amount))

AcceptAcceptedWithoutStatusCheck(buyer_user_id, offer_id) ==
    LET i == FindOffer(offer_id)
    IN  /\ i # 0
        /\ buyer_user_id # market_offers[i].seller_user_id
        /\ buyer_user_id \in Users
        /\ market_offers[i].seller_user_id \in Users
        /\ resources[buyer_user_id][market_offers[i].requested_resource]
               >= market_offers[i].requested_amount

\* _handle_trade_accept_offer returns True
AcceptAccepted(buyer_user_id, offer_id) ==
    LET i == FindOffer(offer_id)
    IN  /\ i # 0
        /\ market_offers[i].status = "open"
        /\ buyer_user_id # market_offers[i].seller_user_id
        /\ buyer_user_id \in Users
        /\ market_offers[i].seller_user_id \in Users
        /\ resources[buyer_user_id][market_offers[i].requested_resource]
               >= market_offers[i].requested_amount

AcceptTransfersEscrowKept(res, o, buyer, fee_amount) ==
    LET seller == o.seller_user_id
        r1 == [res EXCEPT ![buyer][o.requested_resource] = @ - o.requested_amount]
    IN  [r1 EXCEPT ![seller][o.requested_resource] =
                       @ + (o.requested_amount - fee_amount)]

\* the three balance writes of _handle_trade_accept_offer, in program order
AcceptTransfers(res, o, buyer, fee_amount) ==
    LET seller == o.seller_user_id
        r1 == [res EXCEPT ![buyer][o.requested_resource] = @ - o.requested_amount]
        r2 == [r1 EXCEPT ![seller][o.requested_resource] =
                             @ + (o.requested_amount - fee_amount)]
    IN  [r2 EXCEPT ![buyer][o.offered_resource] = @ + o.offered_amount]

\* _handle_trade_accept_offer, successful path
HandleTradeAcceptOffer(buyer_user_id, offer_id) ==
    LET i == FindOffer(offer_id)
        o == market_offers[i]
        fee_amount == FeeAmount(o.requested_amount)
    IN  /\ resources' = AcceptTransfers(resources, o, buyer_user_id, fee_amount)
        /\ market_offers' = [market_offers EXCEPT ![i].status = "accepted",
                                                  ![i].accepted_by = buyer_user_id]
        /\ RecordTradeEvent("trade_completed", offer_id, o.seller_user_id, buyer_user_id)
        /\ ledger' = AcceptTransfers(
                        [ledger EXCEPT ![o.seller_user_id][o.offered_resource] =
                                           @ - o.offered_amount],
                        o, buyer_user_id, fee_amount)
        /\ local' = Touch(local, pc, {buyer_user_id, o.seller_user_id})

\* POST /trade/accept/{offer_id}; db_ok as above
AcceptTradeOffer(user_id, offer_id, db_ok) ==
    /\ pc["req"] = "idle"
    /\ requests < MaxRequests
    /\ requests' = requests + 1
    /\ IF AcceptAccepted(user_id, offer_id)
       THEN /\ HandleTradeAcceptOffer(user_id, offer_id)
            /\ http' = [route |-> "accept_trade_offer", status |-> 200,
                        offer_id |-> offer_id]
            /\ IF db_enabled /\ db_ok
                  /\ \E o \in db_offers : o.id = offer_id /\ o.status = "open"
               THEN /\ db_offers' =
                        {IF o.id = offer_id
                         THEN [o EXCEPT !.status = "accepted", !.accepted_by = user_id]
                         ELSE o : o \in db_offers}
                    /\ db_event_max' = db_event_max + 1
               ELSE UNCHANGED << db_offers, db_event_max >>
       ELSE /\ http' = [route |-> "accept_trade_offer", status |-> 400,
                        offer_id |-> offer_id]
            /\ UNCHANGED << resources, market_offers, trade_history,
                            next_trade_event_id, ledger, local, db_offers,
                            db_event_max >>
    /\ UNCHANGED << cmdVars, now, production, buildings, build_queue, last_active,
                    command_queue, next_offer_id, fee_rate, pc, next_cmd_id,
                    executed, db_enabled, require_start_choice, loopVars, hydration, hydrate_max, issued,
                    db_initial_ids >>

\* ------------------------------------------------- startup with a database
SetMax(S) == IF S = {} THEN 0 ELSE CHOOSE m \in S : \A x \in S : x <= m

\* _hydrate_ids_and_set, up to the end of the four SELECT max(id) queries
HydrateReadMax ==
    /\ pc["req"] = "idle"
    /\ hydration = "pending"
    /\ hydrate_max' = [offer |-> SetMax(DbOfferIds), event |-> db_event_max]
    /\ hydration' = "have_max"
    /\ UNCHANGED << cmdVars, now, worldVars, command_queue, marketVars, pc, local, http,
                    requests, next_cmd_id, executed, ledger, db_enabled, require_start_choice, loopVars,
                    db_offers, db_event_max, issued, db_initial_ids >>

\* _hydrate_ids_and_set: the counters are set from the maxima read before
HydrateSetCounters ==
    /\ pc["req"] = "idle"
    /\ hydration = "have_max"
    /\ next_offer_id' = IF hydrate_max.offer # 0 THEN hydrate_max.offer + 1
                        ELSE next_offer_id
    /\ next_trade_event_id' = IF hydrate_max.event # 0 THEN hydrate_max.event + 1
                              ELSE next_trade_event_id
    /\ hydration' = "counters_set"
    /\ UNCHANGED << cmdVars, now, worldVars, command_queue, market_offers, trade_history,
                    fee_rate, pc, local, http, requests, next_cmd_id, executed,
                    ledger, db_enabled, require_start_choice, loopVars, db_offers, db_event_max, hydrate_max,
                    issued, db_initial_ids >>

\* the open rows, newest first
RECURSIVE NewestFirst(_)
NewestFirst(rows) ==
    IF rows = {} THEN << >>
    ELSE LET o == CHOOSE x \in rows : \A y \in rows : y.id <= x.id
         IN  << o >> \o NewestFirst(rows \ {o})

\* appends every row whose id is not already among the in-memory offers
RECURSIVE MergeRows(_, _)
MergeRows(offers, rows) ==
    IF rows = << >> THEN offers
    ELSE IF \E i \in DOMAIN offers : offers[i].id = Head(rows).id
         THEN MergeRows(offers, Tail(rows))
         ELSE MergeRows(Append(offers, Head(rows)), Tail(rows))

\* _hydrate_ids_and_set: open offers are merged into _market_offers
HydrateMergeOffers ==
    /\ pc["req"] = "idle"
    /\ hydration = "counters_set"
    /\ market_offers' = MergeRows(market_offers,
                            NewestFirst({o \in db_offers : o.status = "open"}))
    /\ hydration' = "done"
    /\ UNCHANGED << cmdVars, now, worldVars, command_queue, next_offer_id, trade_history,
                    next_trade_event_id, fee_rate, pc, local, http, requests,
                    next_cmd_id, executed, ledger, db_enabled, require_start_choice, loopVars, db_offers,
                    db_event_max, hydrate_max, issued, db_initial_ids >>

Next ==
    \/ AdvanceClock
    \/ GameLoopIteration
    \/ \E t \in Threads : Dequeue(t)
    \/ \E t \in Threads : ExecuteCommand(t)
    \/ \E t \in Threads : WorldProcessBegin(t)
    \/ \E t \in Threads : ProdRead(t)
    \/ \E t \in Threads : ProdWrite(t)
    \/ \E t \in Threads : BuildingConstruction(t)
    \/ \E t \in Threads : OtherProcessor(t)
    \/ GetPlayerFleet
    \/ \E u \in Users, in \in OfferInputs, db_ok \in BOOLEAN :
          CreateTradeOffer(u, in, db_ok)
    \/ \E u \in Users, oid \in OfferIds, db_ok \in BOOLEAN :
          AcceptTradeOffer(u, oid, db_ok)

Spec == Init /\ [][Next]_vars

\* Offers left in the database by earlier runs of the server.
StoredOffer(id, seller, status, buyer) ==
    [id |-> id, seller_user_id |-> seller, offered_resource |-> "metal",
     offered_amount |-> 100, requested_resource |-> "crystal",
     requested_amount |-> 50, status |-> status, accepted_by |-> buyer]

StoredOfferSets ==
    { {},
      {StoredOffer(1, 20, "open", 0)},
      {StoredOffer(1, 20, "accepted", 10), StoredOffer(2, 20, "open", 0)} }

\* a process started on a database: lifespan has called load_player_data(),
\* which scheduled _hydrate_ids_and_set on the running event loop
InitDb ==
    /\ InitWorld
    /\ fee_rate = 0
    /\ db_enabled = TRUE
    /\ require_start_choice = FALSE
    /\ InitLoop
    /\ db_offers \in StoredOfferSets
    /\ db_event_max = Cardinality(db_offers)
                        + Cardinality({o \in db_offers : o.status = "accepted"})
    /\ hydration = "pending"
    /\ hydrate_max = NoMax
    /\ issued = << >>
    /\ db_initial_ids = DbOfferIds

\* the event loop after startup: the hydration task and the marketplace routes
NextDb ==
    \/ HydrateReadMax
    \/ HydrateSetCounters
    \/ HydrateMergeOffers
    \/ \E u \in Users, in \in OfferInputs, db_ok \in BOOLEAN :
          CreateTradeOffer(u, in, db_ok)
    \/ \E u \in Users, oid \in OfferIds, db_ok \in BOOLEAN :
          AcceptTradeOffer(u, oid, db_ok)

SpecDb == InitDb /\ [][NextDb]_vars

\* ===================================================================
\* Commands, queues and the systems that complete them. In SpecCmd and
\* SpecFlight the clock `now` is counted in seconds.
\* ===================================================================
SecondsPerHour == 3600
MaxCommands == 4
MaxNow == 240
TimeSteps == {240}
\* the user whose commands are executed
CommandUsers == {10}

BASE_BUILDING_COSTS ==
    [metal_mine |-> [metal |-> 60, crystal |-> 15, deuterium |-> 0],
     crystal_mine |-> [metal |-> 48, crystal |-> 24, deuterium |-> 0],
     deuterium_synthesizer |-> [metal |-> 225, crystal |-> 75, deuterium |-> 0],
     solar_plant |-> [metal |-> 75, crystal |-> 30, deuterium |-> 0],
     robot_factory |-> [metal |-> 400, crystal |-> 120, deuterium |-> 200],
     shipyard |-> [metal |-> 400, crystal |-> 200, deuterium |-> 100],
     research_lab |-> [metal |-> 200, crystal |-> 400, deuterium |-> 0],
     fusion_reactor |-> [metal |-> 900, crystal |-> 500, deuterium |-> 200],
     metal_storage |-> [metal |-> 1000, crystal |-> 0, deuterium |-> 0],
     crystal_storage |-> [metal |-> 800, crystal |-> 200, deuterium |-> 0],
     deuterium_tank |-> [metal |-> 800, crystal |-> 0, deuterium |-> 200]]

BASE_BUILD_TIMES ==
    [metal_mine |-> 60, crystal_mine |-> 80, deuterium_synthesizer |-> 100,
     solar_plant |-> 50, robot_factory |-> 300, shipyard |-> 400,
     research_lab |-> 240, fusion_reactor |-> 360, metal_storage |-> 120,
     crystal_storage |-> 120, deuterium_tank |-> 120]

\* building -> {required building: minimum level}
PREREQUISITES ==
    [shipyard |-> [robot_factory |-> 2],
     fusion_reactor |-> [deuterium_synthesizer |-> 1]]

BASE_RESEARCH_COSTS ==
    [energy |-> [metal |-> 100, crystal |-> 50, deuterium |-> 0],
     laser |-> [metal |-> 200, crystal |-> 100, deuterium |-> 0],
     ion |-> [metal |-> 1000, crystal |-> 300, deuterium |-> 100],
     hyperspace |-> [metal |-> 2000, crystal |-> 1500, deuterium |-> 500],
     plasma |-> [metal |-> 4000, crystal |-> 2000, deuterium |-> 1000],
     computer |-> [metal |-> 500, crystal |-> 250, deuterium |-> 0]]

BASE_RESEARCH_TIMES ==
    [energy |-> 120, laser |-> 180, ion |-> 300, hyperspace |-> 600,
     plasma |-> 900, computer |-> 240]

RESEARCH_PREREQUISITES ==
    [ion |-> [laser |-> 4],
     hyperspace |-> [energy |-> 6, laser |-> 6],
     plasma |-> [energy |-> 8, ion |-> 5]]

BASE_SHIP_COSTS ==
    [light_fighter |-> [metal |-> 300, crystal |-> 150, deuterium |-> 0],
     heavy_fighter |-> [metal |-> 600, crystal |-> 400, deuterium |-> 0],
     cruiser |-> [metal |-> 2000, crystal |-> 1500, deuterium |-> 200],
     battleship |-> [metal |-> 6000, crystal |-> 4000, deuterium |-> 0],
     bomber |-> [metal |-> 5000, crystal |-> 3000, deuterium |-> 1000],
     colony_ship |-> [metal |-> 450, crystal |-> 225, deuterium |-> 0]]

BASE_SHIP_TIMES ==
    [light_fighter |-> 60, heavy_fighter |-> 120, cruiser |-> 300,
     battleship |-> 600, bomber |-> 900, colony_ship |-> 1]

BASE_MAX_FLEET_SIZE == 50
FLEET_SIZE_PER_COMPUTER_LEVEL == 10
SHIPYARD_QUEUE_BASE_LIMIT == 2
SHIPYARD_QUEUE_PER_LEVEL == 1
\* time reductions per level, in percent
HyperspaceReductionPct == 2
RobotFactoryReductionPct == 2
ShipyardReductionPct == 5
ResearchLabReductionPct == 3
\* MIN_BUILD_TIME_FACTOR and MIN_RESEARCH_TIME_FACTOR, in percent
MinTimeFactorPct == 50

\* getattr(obj, name, 0) if hasattr(obj, name) else 0
Attr(obj, name) == IF name \in DOMAIN obj THEN obj[name] ELSE 0

Affordable(res, cost) ==
    /\ res.metal >= cost.metal
    /\ res.crystal >= cost.crystal
    /\ res.deuterium >= cost.deuterium

Spend(res, cost) == [r \in ResourceNames |-> res[r] - cost[r]]

\* resources.x += int(cost[x] * num / den)
Refund(res, cost, num, den) ==
    [r \in ResourceNames |-> res[r] + (cost[r] * num) \div den]

\* requirements of `reqs` (a record name -> minimum level) that levels fail
Unmet(reqs, levels) == {n \in DOMAIN reqs : Attr(levels, n) < reqs[n]}

\* GameWorld._calculate_building_cost: int(base * 1.5 ** level)
CalculateBuildingCost(building_type, level) ==
    IF building_type \notin DOMAIN BASE_BUILDING_COSTS THEN ZeroAmounts
    ELSE [r \in ResourceNames |->
            (BASE_BUILDING_COSTS[building_type][r] * Pow(3, level)) \div Pow(2, level)]

\* GameWorld._calculate_build_time: int(base_time * 1.2 ** level)
CalculateBuildTime(building_type, level) ==
    LET base_time == IF building_type \in DOMAIN BASE_BUILD_TIMES
                     THEN BASE_BUILD_TIMES[building_type] ELSE 60
    IN  (base_time * Pow(12, level)) \div Pow(10, level)

\* GameWorld._calculate_research_cost: int(base * 1.6 ** level)
CalculateResearchCost(research_type, level) ==
    IF research_type \notin DOMAIN BASE_RESEARCH_COSTS THEN ZeroAmounts
    ELSE [r \in ResourceNames |->
            (BASE_RESEARCH_COSTS[research_type][r] * Pow(16, level)) \div Pow(10, level)]

\* GameWorld._calculate_research_time: int(base_time * 1.25 ** level)
CalculateResearchTime(research_type, level) ==
    LET base_time == IF research_type \in DOMAIN BASE_RESEARCH_TIMES
                     THEN BASE_RESEARCH_TIMES[research_type] ELSE 120
    IN  (base_time * Pow(5, level)) \div Pow(4, level)

\* int(max(1, duration * max(MIN_FACTOR, product of the (1 - pct * level))))
\* for a list of <<pct, level>> pairs; the product is kept as n / 100^k
RECURSIVE FactorNum(_)
FactorNum(ps) ==
    IF ps = << >> THEN 1
    ELSE Max(0, 100 - Head(ps)[1] * Head(ps)[2]) * FactorNum(Tail(ps))

RECURSIVE GCD(_, _)
GCD(a, b) == IF b = 0 THEN a ELSE GCD(b, a % b)

Reduced(duration, ps) ==
    LET n == FactorNum(ps)
        d == Pow(100, Len(ps))
        g == GCD(d, n)
        f == IF 100 * n < MinTimeFactorPct * d
             THEN <<MinTimeFactorPct, 100>> ELSE <<n \div g, d \div g>>
    IN  Max(1, (duration * f[1]) \div f[2])

\* POST /auth/register without a database: the entity created for the user
RegisteredResources == [metal |-> 100000, crystal |-> 100000, deuterium |-> 100000]
RegisteredBuildings ==
    [metal_mine |-> 1, crystal_mine |-> 1, deuterium_synthesizer |-> 1,
     solar_plant |-> 1, robot_factory |-> 0, shipyard |-> 1]
\* ResourceProduction() created at time t
NewProduction(t) ==
    [metal_rate |-> 30, crystal_rate |-> 20, deuterium_rate |-> 10, last_update |-> t]

Register(u) ==
    /\ u \notin entities
    /\ entities' = entities \cup {u}
    /\ resources' = [resources EXCEPT ![u] = RegisteredResources]
    /\ production' = [production EXCEPT ![u] = NewProduction(now)]
    /\ buildings' = [buildings EXCEPT ![u] = RegisteredBuildings]
    /\ build_queue' = [build_queue EXCEPT ![u] = << >>]
    /\ ship_queue' = [ship_queue EXCEPT ![u] = << >>]
    /\ fleet' = [fleet EXCEPT ![u] = NewFleet]
    /\ research' = [research EXCEPT ![u] = NewResearch]
    /\ research_queue' = [research_queue EXCEPT ![u] = << >>]
    /\ position' = [position EXCEPT ![u] = NewPosition]
    /\ last_active' = [last_active EXCEPT ![u] = now]
    /\ UNCHANGED << now, movements, db_mission, planetVars, histVars, dbVars, issued,
                    command_queue, marketVars, pc, local, http, requests,
                    next_cmd_id, executed, ledger >>

\* sync._spend_resources_atomic_by_entity on the owner's first row: the cost
\* is taken from the row at the entity's coordinates if the row holds it
SpendRow(row, coords, cost) ==
    IF AtFirstPlanet(row, coords) /\ Affordable(row.resources, cost)
    THEN [row EXCEPT !.resources = Spend(@, cost)]
    ELSE row

\* ------------------------------------------------------ build_building
BuildingInputs == {"solar_plant", "research_lab", "shipyard"}

BuildPlan(user_id, building_type) ==
    LET b == buildings[user_id]
        current_level == Attr(b, building_type)
        build_time == CalculateBuildTime(building_type, current_level)
    IN  [cost |-> CalculateBuildingCost(building_type, current_level),
         build_time |-> Reduced(build_time,
                                << <<HyperspaceReductionPct, Attr(research[user_id], "hyperspace")>>,
                                   <<RobotFactoryReductionPct, Attr(b, "robot_factory")>> >>)]

\* _handle_build_building reaches "Started building"
BuildAccepted(user_id, building_type) ==
    /\ user_id \in entities
    /\ Unmet(IF building_type \in DOMAIN PREREQUISITES
             THEN PREREQUISITES[building_type] ELSE << >>,
             buildings[user_id]) = {}
    /\ Affordable(resources[user_id], BuildPlan(user_id, building_type).cost)

\* _execute_command for a build_building command
BuildBuilding(user_id, building_type) ==
    /\ requests < MaxCommands
    /\ requests' = requests + 1
    /\ IF BuildAccepted(user_id, building_type)
       THEN LET p == BuildPlan(user_id, building_type)
            IN  /\ resources' = [resources EXCEPT ![user_id] = Spend(@, p.cost)]
                /\ build_queue' = [build_queue EXCEPT ![user_id] =
                        Append(@, [type |-> building_type,
                                   completion_time |-> now + p.build_time,
                                   cost |-> p.cost, seq |-> next_seq])]
                /\ next_seq' = next_seq + 1
                /\ db_planet' = IF db_enabled
                                THEN [db_planet EXCEPT ![user_id] =
                                         SpendRow(@, position[user_id], p.cost)]
                                ELSE db_planet
                /\ db_planets' = IF db_enabled
                                 THEN EnsurePlanet(db_planets, user_id, position[user_id])
                                 ELSE db_planets
                /\ db_build_queue' =
                      IF db_enabled /\ AtFirstPlanet(db_planet[user_id], position[user_id])
                      THEN [db_build_queue EXCEPT ![user_id] =
                              Append(@, [type |-> building_type,
                                         complete_at |-> now + p.build_time,
                                         status |-> "pending", seq |-> next_seq])]
                      ELSE db_build_queue
       ELSE UNCHANGED << resources, build_queue, next_seq, db_planet, db_planets,
                         db_build_queue >>
    /\ UNCHANGED << now, entities, production, buildings, last_active, shipVars,
                    flightVars, last_persist, db_ship_queue, db_fleet, ws_sent,
                    completions, coreDbVars, battleVars, runVars, cancelled, issued,
                    command_queue, marketVars, pc, local, http, next_cmd_id,
                    executed, ledger >>

\* ---------------------------------------------------- demolish_building
DemolishInputs == {"solar_plant", "research_lab"}

\* the prerequisite compared with the level before the demolition
ReverseReqsAtCurrentLevel(b, building_type, current_level) ==
    {target \in DOMAIN PREREQUISITES :
        /\ building_type \in DOMAIN PREREQUISITES[target]
        /\ Attr(b, target) > 0
        /\ current_level < PREREQUISITES[target][building_type]}

\* buildings whose prerequisite on building_type would break at new level
ReverseReqs(b, building_type, current_level) ==
    {target \in DOMAIN PREREQUISITES :
        /\ building_type \in DOMAIN PREREQUISITES[target]
        /\ Attr(b, target) > 0
        /\ current_level - 1 < PREREQUISITES[target][building_type]}

DemolishAccepted(user_id, building_type) ==
    /\ user_id \in entities
    /\ building_type \in DOMAIN buildings[user_id]
    /\ buildings[user_id][building_type] > 0
    /\ ReverseReqs(buildings[user_id], building_type,
                   buildings[user_id][building_type]) = {}

\* _execute_command for a demolish_building command
DemolishBuilding(user_id, building_type) ==
    /\ requests < MaxCommands
    /\ requests' = requests + 1
    /\ IF DemolishAccepted(user_id, building_type)
       THEN LET new_level == buildings[user_id][building_type] - 1
                refund_base == CalculateBuildingCost(building_type, new_level)
            IN  /\ buildings' = [buildings EXCEPT ![user_id][building_type] = new_level]
                /\ resources' = [resources EXCEPT ![user_id] = Refund(@, refund_base, 3, 10)]
       ELSE UNCHANGED << buildings, resources >>
    /\ UNCHANGED << now, entities, production, build_queue, last_active, shipVars,
                    flightVars, planetVars, histVars, dbVars, issued, command_queue,
                    marketVars, pc, local, http, next_cmd_id, executed, ledger >>

\* --------------------------------------------------- cancel_build_queue
CancelIndexes == {0, 1}

\* items.pop(0) whatever the index
RemoveAtHead(q, i) == Tail(q)

RemoveAt(q, i) == [k \in 1..(Len(q) - 1) |-> IF k < i THEN q[k] ELSE q[k + 1]]

CancelAccepted(user_id, index) ==
    /\ user_id \in entities
    /\ index >= 0
    /\ index < Len(build_queue[user_id])

\* _execute_command for a cancel_build_queue command (index is 0-based)
CancelBuildQueue(user_id, index) ==
    /\ requests < MaxCommands
    /\ requests' = requests + 1
    /\ IF CancelAccepted(user_id, index)
       THEN LET item == build_queue[user_id][index + 1]
            IN  /\ build_queue' = [build_queue EXCEPT ![user_id] = RemoveAt(@, index + 1)]
                /\ resources' = [resources EXCEPT ![user_id] = Refund(@, item.cost, 1, 2)]
                /\ cancelled' = cancelled \cup {item.seq}
       ELSE UNCHANGED << build_queue, resources, cancelled >>
    /\ UNCHANGED << now, entities, production, buildings, last_active, shipVars,
                    flightVars, planetVars, histVars, coreDbVars, battleVars, runVars,
                    db_build_queue, issued, command_queue,
                    marketVars, pc, local, http, next_cmd_id, executed, ledger >>

\* ------------------------------------------------------- start_research
ResearchInputs == {"computer", "ion", "warp_drive"}

ResearchPlan(user_id, research_type) ==
    LET current_level == Attr(research[user_id], research_type)
        duration == CalculateResearchTime(research_type, current_level)
    IN  [cost |-> CalculateResearchCost(research_type, current_level),
         duration |-> Reduced(duration,
                              << <<ResearchLabReductionPct,
                                   Attr(buildings[user_id], "research_lab")>> >>)]

\* _handle_start_research reaches "Started research"
ResearchAccepted(user_id, research_type) ==
    /\ user_id \in entities
    /\ research_type \in DOMAIN research[user_id]
    /\ Unmet(IF research_type \in DOMAIN RESEARCH_PREREQUISITES
             THEN RESEARCH_PREREQUISITES[research_type] ELSE << >>,
             research[user_id]) = {}
    /\ Affordable(resources[user_id], ResearchPlan(user_id, research_type).cost)

\* _execute_command for a start_research command
StartResearch(user_id, research_type) ==
    /\ requests < MaxCommands
    /\ requests' = requests + 1
    /\ IF ResearchAccepted(user_id, research_type)
       THEN LET p == ResearchPlan(user_id, research_type)
            IN  /\ resources' = [resources EXCEPT ![user_id] = Spend(@, p.cost)]
                /\ research_queue' = [research_queue EXCEPT ![user_id] =
                        Append(@, [type |-> research_type,
                                   completion_time |-> now + p.duration,
                                   cost |-> p.cost, seq |-> next_seq])]
                /\ next_seq' = next_seq + 1
       ELSE UNCHANGED << resources, research_queue, next_seq >>
    /\ UNCHANGED << now, entities, production, buildings, build_queue, last_active,
                    research, ship_queue, fleet, flightVars, planetVars, ws_sent,
                    completions, dbVars, issued, command_queue, marketVars, pc,
                    local, http, next_cmd_id, executed, ledger >>

\* ----------------------------------------------------------- build_ships
ShipInputs ==
    { [ship_type |-> "light_fighter", quantity |-> 30],
      [ship_type |-> "colony_ship", quantity |-> 1],
      [ship_type |-> "bomber", quantity |-> 25],
      [ship_type |-> "death_star", quantity |-> 1] }

RECURSIVE SumCounts(_)
SumCounts(q) == IF q = << >> THEN 0 ELSE Head(q).count + SumCounts(Tail(q))

RECURSIVE SumOver(_, _)
SumOver(f, names) ==
    IF names = {} THEN 0
    ELSE LET n == CHOOSE x \in names : TRUE
         IN  f[n] + SumOver(f, names \ {n})

\* sum of the Fleet fields
FleetTotal(f) == SumOver(f, DOMAIN f)

MaxAllowed(r) ==
    BASE_MAX_FLEET_SIZE + FLEET_SIZE_PER_COMPUTER_LEVEL * Max(0, Attr(r, "computer"))

QueueLimit(shipyard_level) ==
    SHIPYARD_QUEUE_BASE_LIMIT + SHIPYARD_QUEUE_PER_LEVEL * Max(0, shipyard_level)

ShipPlan(user_id, ship_type, qty) ==
    LET quantity == Max(1, qty)
        b == buildings[user_id]
        per_cost == IF ship_type \in DOMAIN BASE_SHIP_COSTS
                    THEN BASE_SHIP_COSTS[ship_type] ELSE ZeroAmounts
        per_time == IF ship_type \in DOMAIN BASE_SHIP_TIMES
                    THEN BASE_SHIP_TIMES[ship_type] ELSE 60
    IN  [quantity |-> quantity,
         total_cost |-> [r \in ResourceNames |-> per_cost[r] * quantity],
         duration |-> Reduced(per_time * quantity,
                              << <<HyperspaceReductionPct, Attr(research[user_id], "hyperspace")>>,
                                 <<ShipyardReductionPct, Max(0, Attr(b, "shipyard"))>>,
                                 <<RobotFactoryReductionPct, Max(0, Attr(b, "robot_factory"))>> >>)]

\* the validation of _handle_build_ships up to the fleet size check, with
\* total_current as the handler counted it
ShipsValidated(user_id, ship_type, qty, total_current) ==
    /\ user_id \in entities
    /\ ship_type \in DOMAIN fleet[user_id]
    /\ Attr(buildings[user_id], "shipyard") > 0
    /\ total_current + Max(1, qty) <= MaxAllowed(research[user_id])

\* _handle_build_ships deducts the cost
ShipsPaid(user_id, ship_type, qty) ==
    /\ ShipsValidated(user_id, ship_type, qty,
                      FleetTotal(fleet[user_id]) + SumCounts(ship_queue[user_id]))
    /\ Affordable(resources[user_id], ShipPlan(user_id, ship_type, qty).total_cost)

\* _handle_build_ships appends to the ship queue
ShipsQueued(user_id, ship_type, qty) ==
    /\ ShipsPaid(user_id, ship_type, qty)
    /\ Len(ship_queue[user_id]) < QueueLimit(Attr(buildings[user_id], "shipyard"))

\* _execute_command for a build_ships command; with a database the spending
\* and the queued item are written to the planets and ship_build_queue tables
BuildShips(user_id, ship_type, qty) ==
    /\ requests < MaxCommands
    /\ requests' = requests + 1
    /\ LET p == ShipPlan(user_id, ship_type, qty)
       IN  /\ resources' = IF ShipsPaid(user_id, ship_type, qty)
                           THEN [resources EXCEPT ![user_id] = Spend(@, p.total_cost)]
                           ELSE resources
           /\ IF ShipsQueued(user_id, ship_type, qty)
              THEN /\ ship_queue' = [ship_queue EXCEPT ![user_id] =
                          Append(@, [type |-> ship_type, count |-> p.quantity,
                                     completion_time |-> now + p.duration,
                                     cost |-> p.total_cost, seq |-> next_seq])]
                   /\ next_seq' = next_seq + 1
              ELSE UNCHANGED << ship_queue, next_seq >>
           /\ db_planet' = IF db_enabled /\ ShipsPaid(user_id, ship_type, qty)
                           THEN [db_planet EXCEPT ![user_id] =
                                    SpendRow(@, position[user_id], p.total_cost)]
                           ELSE db_planet
           /\ db_planets' = IF db_enabled /\ ShipsPaid(user_id, ship_type, qty)
                            THEN EnsurePlanet(db_planets, user_id, position[user_id])
                            ELSE db_planets
           /\ db_ship_queue' = IF /\ db_enabled /\ ShipsQueued(user_id, ship_type, qty)
                                  /\ AtFirstPlanet(db_planet[user_id], position[user_id])
                               THEN [db_ship_queue EXCEPT ![user_id] =
                                        Append(@, [type |-> ship_type, count |-> p.quantity,
                                                   completion_time |-> now + p.duration])]
                               ELSE db_ship_queue
    /\ UNCHANGED << now, entities, production, buildings, build_queue, last_active,
                    research, research_queue, fleet, flightVars, last_persist, db_fleet, ws_sent,
                    completions, dbVars, issued, command_queue, marketVars, pc,
                    local, http, next_cmd_id, executed, ledger >>

\* ------------------------------------------------ systems, whole entity
\* int(round(base * 1.1 ** level * time_diff * factor)), time_diff = seconds / 3600
RawProductionSeconds(rate, level, seconds, f) ==
    RoundHalfEven(rate * Pow(11, level) * seconds * f[1],
                  Pow(10, level) * f[2] * SecondsPerHour)

\* ResourceProductionSystem.process for one entity after `seconds` > 0:
\* the new Resources component
ProduceSeconds(res, rates, b, seconds) ==
    LET f == EnergyFactor(b)
        add == [metal |->
                  ClampedAdd(RawProductionSeconds(rates.metal_rate, Level(b, "metal_mine"), seconds, f),
                             Capacity("metal", Level(b, "metal_storage")), res.metal),
                crystal |->
                  ClampedAdd(RawProductionSeconds(rates.crystal_rate, Level(b, "crystal_mine"), seconds, f),
                             Capacity("crystal", Level(b, "crystal_storage")), res.crystal),
                deuterium |->
                  ClampedAdd(RawProductionSeconds(rates.deuterium_rate, Level(b, "deuterium_synthesizer"), seconds, f),
                             Capacity("deuterium", Level(b, "deuterium_tank")), res.deuterium)]
        cons_d == RoundHalfEven(FUSION_DEUTERIUM_CONSUMPTION_PER_LEVEL
                                    * Level(b, "fusion_reactor") * seconds, SecondsPerHour)
        r1 == [r \in ResourceNames |-> res[r] + add[r]]
    IN  IF cons_d > 0 THEN [r1 EXCEPT !.deuterium = Max(0, @ - cons_d)] ELSE r1

\* ResearchSystem.process for one entity
CompleteResearchHead(r, q, current_time) ==
    IF q = << >> THEN [research |-> r, items |-> q, gained |-> FALSE]
    ELSE LET current_item == Head(q)
             ct == current_item.completion_time
         IN  IF ct = NoTime
             THEN [research |-> r, items |-> Tail(q), gained |-> FALSE]
             ELSE IF current_time >= ct
             THEN IF current_item.type \in DOMAIN r
                  THEN [research |-> [r EXCEPT ![current_item.type] = @ + 1],
                        items |-> Tail(q), gained |-> TRUE]
                  ELSE [research |-> r, items |-> Tail(q), gained |-> FALSE]
             ELSE [research |-> r, items |-> q, gained |-> FALSE]

\* the while loop of ShipyardSystem with the malformed head taken for due
RECURSIVE CompleteShipsNoDrop(_, _, _, _)
CompleteShipsNoDrop(f, q, current_time, completed_batch) ==
    IF q = << >>
    THEN [fleet |-> f, items |-> q, completed_batch |-> completed_batch]
    ELSE LET current_build == Head(q)
         IN  IF current_time < current_build.completion_time
             THEN [fleet |-> f, items |-> q, completed_batch |-> completed_batch]
             ELSE CompleteShipsNoDrop(
                    IF current_build.type \in DOMAIN f
                    THEN [f EXCEPT ![current_build.type] = @ + Max(0, current_build.count)]
                    ELSE f,
                    Tail(q), current_time, Append(completed_batch, current_build))

\* ShipyardSystem.process for one entity: the while loop over the queue head
RECURSIVE CompleteShips(_, _, _, _)
CompleteShips(f, q, current_time, completed_batch) ==
    IF q = << >>
    THEN [fleet |-> f, items |-> q, completed_batch |-> completed_batch]
    ELSE LET current_build == Head(q)
         IN  IF current_build.completion_time = NoTime
             THEN CompleteShips(f, Tail(q), current_time, completed_batch)
             ELSE IF current_time < current_build.completion_time
             THEN [fleet |-> f, items |-> q, completed_batch |-> completed_batch]
             ELSE CompleteShips(
                    IF current_build.type \in DOMAIN f
                    THEN [f EXCEPT ![current_build.type] = @ + Max(0, current_build.count)]
                    ELSE f,
                    Tail(q), current_time, Append(completed_batch, current_build))

\* ---------------------------------------------------------- fleet flights
COLONIZATION_TIME_SECONDS == 1
SYSTEMS_PER_GALAXY == 499
POSITIONS_PER_SYSTEM == 15
\* BASE_SHIP_STATS['light_fighter']['speed'], the speed of a dispatch that
\* names no ships from an entity that owns none of the rated ship types
LightFighterSpeed == 12500

Abs(x) == IF x < 0 THEN -x ELSE x

NewMovement(origin, target, departure, arrival, mission, recalled) ==
    [origin |-> origin, target |-> target, departure_time |-> departure,
     arrival_time |-> arrival, mission |-> mission, recalled |-> recalled,
     colonizing |-> FALSE]

\* _upsert_fleet_mission_by_entity: the row written for a movement
MissionRow(m) ==
    [present |-> TRUE, origin |-> m.origin, target |-> m.target,
     departure_time |-> m.departure_time, arrival_time |-> m.arrival_time,
     mission |-> m.mission, recalled |-> m.recalled]

\* int((distance_units / effective_speed) * 3600), at least 1
TravelSeconds(origin, target) ==
    LET distance_units ==
            Abs(target.galaxy - origin.galaxy) * SYSTEMS_PER_GALAXY * POSITIONS_PER_SYSTEM
            + Abs(target.system - origin.system) * POSITIONS_PER_SYSTEM
            + Abs(target.planet - origin.planet)
    IN  Max(1, (distance_units * SecondsPerHour) \div LightFighterSpeed)

DispatchTargets ==
    { [galaxy |-> 1, system |-> 2, planet |-> 1],
      [galaxy |-> 0, system |-> 1, planet |-> 1] }
Missions == {"transfer", "colonize"}

DispatchAccepted(user_id, target) ==
    /\ target.galaxy > 0
    /\ target.system > 0
    /\ target.planet > 0
    /\ user_id \in entities

\* World.add_component for a FleetMovement
AttachMovement(ms, m) == Append(ms, m)

\* _handle_fleet_dispatch
HandleFleetDispatch(user_id, target, mission) ==
    IF DispatchAccepted(user_id, target)
    THEN LET origin == position[user_id]
             movement == NewMovement(origin, target, now,
                                     now + TravelSeconds(origin, target),
                                     mission, FALSE)
         IN  /\ movements' = [movements EXCEPT ![user_id] = AttachMovement(@, movement)]
             /\ db_mission' = IF db_enabled
                              THEN [db_mission EXCEPT ![user_id] = MissionRow(movement)]
                              ELSE db_mission
    ELSE UNCHANGED << movements, db_mission >>

\* _execute_command for a fleet_dispatch command
FleetDispatch(user_id, target, mission) ==
    /\ requests < MaxCommands
    /\ requests' = requests + 1
    /\ HandleFleetDispatch(user_id, target, mission)
    /\ UNCHANGED << now, entities, worldVars, shipVars, position, planetVars, histVars,
                    dbVars, issued, command_queue, marketVars, pc, local, http,
                    next_cmd_id, executed, ledger >>

RecallAccepted(user_id) ==
    /\ user_id \in entities
    /\ movements[user_id] # << >>
    /\ now < Head(movements[user_id]).arrival_time
    /\ ~Head(movements[user_id]).recalled

RecalledWithoutFloor(mv, t) ==
    [mv EXCEPT !.target = mv.origin, !.recalled = TRUE, !.departure_time = t,
               !.arrival_time = t + (t - mv.departure_time)]

RecalledKeepingTarget(mv, t) ==
    [mv EXCEPT !.recalled = TRUE, !.departure_time = t,
               !.arrival_time = t + Max(1, t - mv.departure_time)]

\* _handle_fleet_recall: the movement after the recall at time t
Recalled(mv, t) ==
    [mv EXCEPT !.target = mv.origin, !.recalled = TRUE, !.departure_time = t,
               !.arrival_time = t + Max(1, t - mv.departure_time)]

\* _handle_fleet_recall
HandleFleetRecall(user_id) ==
    IF RecallAccepted(user_id)
    THEN LET mv == Recalled(Head(movements[user_id]), now)
         IN  /\ movements' = [movements EXCEPT ![user_id] = << mv >> \o Tail(@)]
             /\ db_mission' = IF db_enabled
                              THEN [db_mission EXCEPT ![user_id] = MissionRow(mv)]
                              ELSE db_mission
    ELSE UNCHANGED << movements, db_mission >>

\* _execute_command for a fleet_recall command
FleetRecall(user_id) ==
    /\ requests < MaxCommands
    /\ requests' = requests + 1
    /\ HandleFleetRecall(user_id)
    /\ UNCHANGED << now, entities, worldVars, shipVars, position, planetVars, histVars,
                    dbVars, issued, command_queue, marketVars, pc, local, http,
                    next_cmd_id, executed, ledger >>

\* sync.create_colony hands _create_colony to the persistence loop and
\* returns True whether or not the target turns out to be occupied
CreateColonyResults == {TRUE}

\* FleetMovementSystem.process for one entity; ok is the result of
\* create_colony. The system sees the first FleetMovement of the entity and
\* remove_component removes the first.
ArriveMovement(pos, f, ms, row, current_time, ok) ==
    LET keep == [position |-> pos, fleet |-> f, movements |-> ms, row |-> row]
    IN  IF ms = << >> THEN keep
        ELSE LET movement == Head(ms)
                 ended == [keep EXCEPT !.movements = Tail(ms), !.row = NoMission]
                 colonized == IF ok
                              THEN [ended EXCEPT !.fleet.colony_ship = Max(0, @ - 1)]
                              ELSE ended
             IN  IF current_time < movement.arrival_time THEN keep
                 ELSE IF movement.mission = "colonize" /\ ~movement.recalled
                 THEN IF ~movement.colonizing
                      THEN IF f.colony_ship <= 0 THEN ended
                           ELSE LET colonizing_until ==
                                        movement.arrival_time + COLONIZATION_TIME_SECONDS
                                IN  IF current_time >= colonizing_until THEN colonized
                                    ELSE [keep EXCEPT !.movements =
                                            << [movement EXCEPT
                                                  !.colonizing = TRUE,
                                                  !.arrival_time = colonizing_until] >>
                                            \o Tail(ms)]
                      ELSE colonized
                 ELSE [ended EXCEPT !.position = movement.target]

\* the target of the create_colony call FleetMovementSystem.process makes for
\* one entity in a pass, if it makes one
ColonyTarget(f, ms, current_time) ==
    IF ms = << >> THEN {}
    ELSE LET movement == Head(ms)
         IN  IF /\ current_time >= movement.arrival_time
                /\ movement.mission = "colonize"
                /\ ~movement.recalled
                /\ \/ movement.colonizing
                   \/ /\ f.colony_ship > 0
                      /\ current_time >= movement.arrival_time + COLONIZATION_TIME_SECONDS
             THEN {movement.target}
             ELSE {}

\* sync._create_colony: a row for the owner unless a planet of anybody is
\* stored at the coordinates
CreateColony(rows, owner_id, coords) ==
    IF \E r \in rows : r.coords = coords THEN rows
    ELSE rows \cup {PlanetAt(owner_id, coords)}

\* the create_colony calls of one pass, in the order of the entities
RECURSIVE CreateColonies(_, _, _)
CreateColonies(rows, order, targets) ==
    IF order = << >> THEN rows
    ELSE CreateColonies(IF targets[Head(order)] = {} THEN rows
                        ELSE CreateColony(rows, Head(order),
                                          CHOOSE c \in targets[Head(order)] : TRUE),
                        Tail(order), targets)

\* sync._complete_next_ship_build_by_entity, once per completed item: the
\* earliest row that is not completed is marked completed
DropHeads(rows, n) == SubSeq(rows, Min(n, Len(rows)) + 1, Len(rows))

\* ------------------------------------------------------------ one tick
RECURSIVE Flatten(_, _)
Flatten(f, order) ==
    IF order = << >> THEN << >> ELSE f[Head(order)] \o Flatten(f, Tail(order))

\* history record of a queue item removed as completed
Completion(e, queue, item, effect, expected) ==
    [user |-> e, queue |-> queue, seq |-> item.seq, effect |-> effect,
     expected |-> expected]

RECURSIVE ShipCompletions(_, _, _)
ShipCompletions(e, f, batch) ==
    IF batch = << >> THEN << >>
    ELSE << Completion(e, "ship", Head(batch),
                       IF Head(batch).type \in DOMAIN f THEN Max(0, Head(batch).count) ELSE 0,
                       Head(batch).count) >>
         \o ShipCompletions(e, f, Tail(batch))

\* utc_now() moves on by d seconds
Elapse(d, limit) ==
    /\ now + d <= limit
    /\ now' = now + d
    /\ UNCHANGED << cmdVars, dbVars, issued, worldVars, command_queue, marketVars, pc,
                    local, http, requests, next_cmd_id, executed, ledger >>

\* sync._complete_next_build_queue_by_entity: the pending row with the lowest
\* id becomes "completed"
CompleteNextRow(rows) ==
    LET pending == {i \in DOMAIN rows : rows[i].status = "pending"}
    IN  IF pending = {} THEN rows
        ELSE LET first == CHOOSE i \in pending : \A j \in pending : i <= j
             IN  [rows EXCEPT ![first].status = "completed"]

\* World.process(): one pass of the seven processors, run without
\* interruption by the simulation thread. ok is the result of create_colony.
WorldPass(ok) ==
    LET seconds == [e \in Users |-> now - production[e].last_update]
        built == [e \in Users |-> CompleteHead(buildings[e], build_queue[e], now)]
        studied == [e \in Users |->
                      CompleteResearchHead(research[e], research_queue[e], now)]
        shipped == [e \in Users |-> CompleteShips(fleet[e], ship_queue[e], now, << >>)]
        arrived == [e \in Users |->
                      ArriveMovement(position[e], shipped[e].fleet, movements[e],
                                     db_mission[e], now, ok)]
        done == [e \in Users |->
                    (IF /\ Len(built[e].items) < Len(build_queue[e])
                        /\ Head(build_queue[e]).completion_time # NoTime
                     THEN << Completion(e, "build", Head(build_queue[e]),
                                        IF built[e].gained THEN 1 ELSE 0, 1) >>
                     ELSE << >>)
                    \o (IF /\ Len(studied[e].items) < Len(research_queue[e])
                           /\ Head(research_queue[e]).completion_time # NoTime
                        THEN << Completion(e, "research", Head(research_queue[e]),
                                           IF studied[e].gained THEN 1 ELSE 0, 1) >>
                        ELSE << >>)
                    \o ShipCompletions(e, fleet[e], shipped[e].completed_batch)]
    IN  /\ resources' = [e \in Users |->
                            IF e \in entities /\ seconds[e] > 0
                            THEN ProduceSeconds(resources[e], production[e],
                                                buildings[e], seconds[e])
                            ELSE resources[e]]
        /\ production' = [e \in Users |->
                            IF e \in entities /\ seconds[e] > 0
                            THEN [production[e] EXCEPT !.last_update = now]
                            ELSE production[e]]
        /\ buildings' = [e \in Users |-> built[e].buildings]
        /\ build_queue' = [e \in Users |-> built[e].items]
        /\ research' = [e \in Users |-> studied[e].research]
        /\ research_queue' = [e \in Users |-> studied[e].items]
        /\ fleet' = [e \in Users |-> arrived[e].fleet]
        /\ ship_queue' = [e \in Users |-> shipped[e].items]
        /\ ws_sent' = [e \in Users |->
                          IF shipped[e].completed_batch # << >> THEN 1 ELSE 0]
        /\ position' = [e \in Users |-> arrived[e].position]
        /\ movements' = [e \in Users |-> arrived[e].movements]
        /\ db_mission' = [e \in Users |-> arrived[e].row]
        /\ completions' = completions \o Flatten(done, EntityOrder)
        /\ db_planets' =
              IF db_enabled
              THEN CreateColonies(db_planets, EntityOrder,
                                  [e \in Users |->
                                      ColonyTarget(shipped[e].fleet, movements[e], now)])
              ELSE db_planets
        /\ db_ship_queue' =
              [e \in Users |->
                  IF db_enabled /\ AtFirstPlanet(db_planet[e], arrived[e].position)
                  THEN DropHeads(db_ship_queue[e], Len(shipped[e].completed_batch))
                  ELSE db_ship_queue[e]]
        /\ db_fleet' =
              [e \in Users |->
                  IF /\ db_enabled
                     /\ \/ shipped[e].completed_batch # << >>
                        \/ ColonyTarget(shipped[e].fleet, movements[e], now) # {}
                     /\ AtFirstPlanet(db_planet[e], arrived[e].position)
                  THEN arrived[e].fleet
                  ELSE db_fleet[e]]
        /\ db_build_queue' =
              [e \in Users |->
                  IF /\ db_enabled
                     /\ build_queue[e] # << >>
                     /\ Head(build_queue[e]).completion_time # NoTime
                     /\ Len(built[e].items) < Len(build_queue[e])
                     /\ AtFirstPlanet(db_planet[e], position[e])
                  THEN CompleteNextRow(db_build_queue[e])
                  ELSE db_build_queue[e]]
        /\ UNCHANGED << now, entities, last_active, db_planet, last_persist, next_seq,
                        coreDbVars, battleVars, cancelled, issued,
                        command_queue, marketVars, pc, local, http, requests,
                        next_cmd_id, executed, ledger >>

\* self.world.process() in a tick of _game_loop that runs to its end
WorldProcess(ok) == WorldPass(ok) /\ UNCHANGED runVars

\* a process without a database in which nobody has registered yet
InitCmd ==
    /\ now = 0
    /\ entities = {}
    /\ resources = [u \in Users |-> ZeroAmounts]
    /\ production = [u \in Users |-> NewProduction(0)]
    /\ buildings = InitBuildings
    /\ build_queue = [u \in Users |-> << >>]
    /\ last_active = [u \in Users |-> 0]
    /\ command_queue = << >>
    /\ market_offers = << >>
    /\ next_offer_id = 1
    /\ trade_history = << >>
    /\ next_trade_event_id = 1
    /\ fee_rate = 0
    /\ pc = [t \in Threads |-> "idle"]
    /\ local = [t \in Threads |-> InitLocal]
    /\ http = NoResponse
    /\ requests = 0
    /\ next_cmd_id = 1
    /\ executed = << >>
    /\ ledger = [u \in Users |-> ZeroAmounts]
    /\ db_enabled = FALSE
    /\ require_start_choice = FALSE
    /\ InitLoop
    /\ db_offers = {}
    /\ db_event_max = 0
    /\ hydration = "none"
    /\ hydrate_max = NoMax
    /\ issued = << >>
    /\ db_initial_ids = {}
    /\ InitComponents

\* registration, the commands of the simulation thread and its ticks
NextCmd ==
    \/ \E u \in Users : Register(u)
    \/ \E u \in CommandUsers, b \in BuildingInputs : BuildBuilding(u, b)
    \/ \E u \in CommandUsers, b \in DemolishInputs : DemolishBuilding(u, b)
    \/ \E u \in CommandUsers, i \in CancelIndexes : CancelBuildQueue(u, i)
    \/ \E u \in CommandUsers, r \in ResearchInputs : StartResearch(u, r)
    \/ \E u \in CommandUsers, s \in ShipInputs : BuildShips(u, s.ship_type, s.quantity)
    \/ \E d \in TimeSteps : Elapse(d, MaxNow)
    \/ \E ok \in CreateColonyResults : WorldProcess(ok)

SpecCmd == InitCmd /\ [][NextCmd]_vars

\* ===================================================================
\* A process running on a database: flights, the periodic save, the reload
\* of a player at login and the hydration of load_player_data.
\* Writes handed to the persistence loop are taken as applied at once.
\* ===================================================================
PERSIST_INTERVAL_SECONDS == 60
MaxFlightNow == 6
FlightSteps == {2}

\* Buildings() and the column defaults of the planets table
NewBuildings ==
    [metal_mine |-> 1, crystal_mine |-> 1, deuterium_synthesizer |-> 1,
     solar_plant |-> 1, robot_factory |-> 0, shipyard |-> 0]
PlanetRowResources == [metal |-> 500, crystal |-> 300, deuterium |-> 100]
NewPlanetRow(t) ==
    [present |-> TRUE, coords |-> NewPosition, resources |-> PlanetRowResources,
     last_update |-> t]

\* sync._should_persist for the planet key of user u at coordinates c
ShouldPersist(u, c) ==
    \A k \in last_persist :
        (k.user = u /\ k.coords = c) => now - k.at >= PERSIST_INTERVAL_SECONDS

\* GameWorld.save_player_data: sync_planet_resources, throttled, and
\* sync_building_level, not throttled, for every entity. The row is looked
\* up by owner and the entity's current coordinates and created if the owner
\* has none there; db_planet is the owner's first row, the one a reload reads.
PersistDue == {u \in entities : ShouldPersist(u, position[u])}
SavedLastPersist ==
    {k \in last_persist : ~(k.user \in PersistDue /\ k.coords = position[k.user])}
        \cup {[user |-> u, coords |-> position[u], at |-> now] : u \in PersistDue}
SavedPlanet ==
    [u \in Users |->
        IF u \in PersistDue /\ db_planet[u].present /\ db_planet[u].coords = position[u]
        THEN [db_planet[u] EXCEPT !.resources = resources[u],
                                  !.last_update = production[u].last_update]
        ELSE db_planet[u]]
SavedPlanets == db_planets \cup {PlanetAt(u, position[u]) : u \in entities}

SavePlayerData ==
    /\ db_enabled
    /\ last_persist' = SavedLastPersist
    /\ db_planet' = SavedPlanet
    /\ db_planets' = SavedPlanets
    /\ UNCHANGED << db_ship_queue, db_fleet, now, entities, worldVars, shipVars,
                    flightVars, histVars, dbVars, issued, command_queue, marketVars, pc, local,
                    http, requests, next_cmd_id, executed, ledger >>

\* sync._load_player_into_world for a user whose entity exists (login): every
\* component but FleetMovement is replaced by one built from the rows of the
\* user's first planet. The three queues start empty, Player.last_active is
\* the time of the call, and no code writes the research table. The building
\* rows hold the levels the entity has.
LoginReload(user_id) ==
    /\ db_enabled
    /\ requests < MaxCommands
    /\ requests' = requests + 1
    /\ user_id \in entities
    /\ db_planet[user_id].present
    /\ LET planet == db_planet[user_id]
       IN  /\ position' = [position EXCEPT ![user_id] = planet.coords]
           /\ resources' = [resources EXCEPT ![user_id] = planet.resources]
           /\ production' = [production EXCEPT ![user_id] =
                                [@ EXCEPT !.last_update = planet.last_update]]
    /\ build_queue' = [build_queue EXCEPT ![user_id] = << >>]
    /\ ship_queue' = [ship_queue EXCEPT ![user_id] = << >>]
    /\ research_queue' = [research_queue EXCEPT ![user_id] = << >>]
    /\ fleet' = [fleet EXCEPT ![user_id] = db_fleet[user_id]]
    /\ research' = [research EXCEPT ![user_id] = NewResearch]
    /\ last_active' = [last_active EXCEPT ![user_id] = now]
    /\ UNCHANGED << now, entities, buildings, movements, db_mission, planetVars,
                    histVars, dbVars, issued, command_queue, marketVars, pc, local,
                    http, next_cmd_id, executed, ledger >>

\* the energy factor of _apply_offline_resource_accrual: energy_produced
\* counts the solar plant only
SolarEnergyFactor(b) ==
    LET p == ENERGY_SOLAR_BASE * Level(b, "solar_plant")
        r == EnergyRequired(b)
    IN  IF r <= 0 THEN <<1, 1>>
        ELSE IF p <= 0 THEN <<0, 1>>
        ELSE IF p >= r THEN <<1, 1>>
        ELSE IF SoftFloorDen * p <= r THEN <<1, SoftFloorDen>>
        ELSE <<p, r>>

\* an accrual that credits the raw production without the capacity clamp
OfflineAccrualUnclamped(res, rates, b, seconds) ==
    LET f == SolarEnergyFactor(b)
    IN  [metal |-> res.metal +
            RawProductionSeconds(rates.metal_rate, Level(b, "metal_mine"), seconds, f),
         crystal |-> res.crystal +
            RawProductionSeconds(rates.crystal_rate, Level(b, "crystal_mine"), seconds, f),
         deuterium |-> res.deuterium +
            RawProductionSeconds(rates.deuterium_rate, Level(b, "deuterium_synthesizer"), seconds, f)]

\* GameWorld._apply_offline_resource_accrual for one entity after `seconds` > 0:
\* no fusion reactor in the energy balance and no deuterium consumption
OfflineAccrual(res, rates, b, seconds) ==
    LET f == SolarEnergyFactor(b)
    IN  [metal |-> res.metal +
            ClampedAdd(RawProductionSeconds(rates.metal_rate, Level(b, "metal_mine"), seconds, f),
                       Capacity("metal", Level(b, "metal_storage")), res.metal),
         crystal |-> res.crystal +
            ClampedAdd(RawProductionSeconds(rates.crystal_rate, Level(b, "crystal_mine"), seconds, f),
                       Capacity("crystal", Level(b, "crystal_storage")), res.crystal),
         deuterium |-> res.deuterium +
            ClampedAdd(RawProductionSeconds(rates.deuterium_rate, Level(b, "deuterium_synthesizer"), seconds, f),
                       Capacity("deuterium", Level(b, "deuterium_tank")), res.deuterium)]

\* load_player_data, mission hydration for one entity at time t
HydrateMission(pos, ms, row, t) ==
    LET keep == [position |-> pos, movements |-> ms, row |-> row]
        mv == NewMovement(row.origin, row.target, row.departure_time,
                          row.arrival_time, row.mission, row.recalled)
    IN  IF ms # << >> \/ ~row.present THEN keep
        ELSE IF t >= mv.arrival_time
        THEN [keep EXCEPT !.position = mv.target, !.row = NoMission]
        ELSE [keep EXCEPT !.movements = AttachMovement(ms, mv)]

\* The server is stopped and started again as a new process, d seconds
\* later. Stopping: stop_game_loop makes the final save_player_data, throttled
\* like every save. Starting (lifespan): load_player_data() runs first, on the
\* thread of the event loop and on a World that holds no entity yet, so its
\* hydration of the queues and of the fleet missions visits nothing: the
\* reload it submits only starts when lifespan awaits
\* _load_all_players_into_world, and load_ship_queue_items and
\* load_fleet_mission, waiting on the loop from its own thread, time out.
\* Then every user is loaded from the rows of their first planet and the
\* offline accrual is applied. The building rows hold the levels the entity
\* had; no code writes the research table.
Restart(d, limit) ==
    /\ db_enabled
    /\ requests < MaxCommands
    /\ requests' = requests + 1
    /\ now + d <= limit
    /\ now' = now + d
    /\ db_planet' = SavedPlanet
    /\ db_planets' = SavedPlanets
    /\ last_persist' = {}
    /\ LET loaded == {u \in Users : SavedPlanet[u].present}
           seconds == [u \in Users |-> now + d - SavedPlanet[u].last_update]
       IN  /\ entities' = loaded
           /\ position' = [u \in Users |->
                              IF u \in loaded THEN SavedPlanet[u].coords ELSE position[u]]
           /\ resources' = [u \in Users |->
                               IF u \notin loaded THEN resources[u]
                               ELSE IF seconds[u] > 0
                               THEN OfflineAccrual(SavedPlanet[u].resources, production[u],
                                                   buildings[u], seconds[u])
                               ELSE SavedPlanet[u].resources]
           /\ production' = [u \in Users |->
                                IF u \notin loaded THEN production[u]
                                ELSE [production[u] EXCEPT !.last_update =
                                        IF seconds[u] > 0 THEN now + d
                                        ELSE SavedPlanet[u].last_update]]
           /\ fleet' = [u \in Users |-> IF u \in loaded THEN db_fleet[u] ELSE fleet[u]]
           /\ research' = [u \in Users |->
                              IF u \in loaded THEN NewResearch ELSE research[u]]
           /\ last_active' = [u \in Users |->
                                 IF u \in loaded THEN now + d ELSE last_active[u]]
    /\ build_queue' = [u \in Users |-> << >>]
    /\ ship_queue' = [u \in Users |-> << >>]
    /\ research_queue' = [u \in Users |-> << >>]
    /\ movements' = [u \in Users |-> << >>]
    /\ command_queue' = << >>
    /\ market_offers' = << >>
    /\ next_offer_id' = 1
    /\ trade_history' = << >>
    /\ next_trade_event_id' = 1
    /\ pc' = [t \in Threads |-> "idle"]
    /\ local' = [t \in Threads |-> InitLocal]
    /\ http' = NoResponse
    /\ hydration' = "pending"
    /\ hydrate_max' = NoMax
    /\ issued' = << >>
    /\ db_initial_ids' = DbOfferIds
    /\ ws_sent' = [u \in Users |-> 0]
    /\ UNCHANGED << buildings, db_mission, db_ship_queue, db_fleet, db_enabled, require_start_choice, loopVars,
                    db_offers, db_event_max, fee_rate, completions, next_seq,
                    next_cmd_id, executed, ledger >>

\* a fleet_missions row left by the previous run of the server
StoredMission ==
    MissionRow(NewMovement(NewPosition, [galaxy |-> 1, system |-> 2, planet |-> 1],
                           0, 4, "transfer", FALSE))
ColonyShips == {0, 1}
\* seconds between the stop of the server and its next start
Downtimes == {0, 2}

\* the server has started on a database that holds both players and a
\* mission of player 20, and _load_all_players_into_world has created the
\* entities
InitFlight ==
    /\ now = 0
    /\ entities = Users
    /\ resources = [u \in Users |-> PlanetRowResources]
    /\ production = [u \in Users |-> NewProduction(0)]
    /\ buildings = [u \in Users |-> NewBuildings]
    /\ build_queue = [u \in Users |-> << >>]
    /\ last_active = [u \in Users |-> 0]
    /\ command_queue = << >>
    /\ market_offers = << >>
    /\ next_offer_id = 1
    /\ trade_history = << >>
    /\ next_trade_event_id = 1
    /\ fee_rate = 0
    /\ pc = [t \in Threads |-> "idle"]
    /\ local = [t \in Threads |-> InitLocal]
    /\ http = NoResponse
    /\ requests = 0
    /\ next_cmd_id = 1
    /\ executed = << >>
    /\ ledger = [u \in Users |-> ZeroAmounts]
    /\ db_enabled = TRUE
    /\ require_start_choice = FALSE
    /\ InitLoop
    /\ db_offers = {}
    /\ db_event_max = 0
    /\ hydration = "none"
    /\ hydrate_max = NoMax
    /\ issued = << >>
    /\ db_initial_ids = {}
    /\ research = [u \in Users |-> NewResearch]
    /\ research_queue = [u \in Users |-> << >>]
    /\ ship_queue = [u \in Users |-> << >>]
    /\ \E c \in ColonyShips :
          fleet = [u \in Users |->
                      IF u = 10 THEN [NewFleet EXCEPT !.colony_ship = c] ELSE NewFleet]
    /\ position = [u \in Users |-> NewPosition]
    /\ movements = [u \in Users |-> << >>]
    /\ db_planet = [u \in Users |-> NewPlanetRow(0)]
    /\ last_persist = {}
    /\ db_planets = {PlanetAt(u, NewPosition) : u \in Users}
    /\ db_ship_queue = [u \in Users |-> << >>]
    /\ db_fleet = fleet
    /\ db_mission = [u \in Users |-> IF u = 20 THEN StoredMission ELSE NoMission]
    /\ ws_sent = [u \in Users |-> 0]
    /\ completions = << >>
    /\ next_seq = 1

NextFlight ==
    \/ \E u \in CommandUsers, target \in DispatchTargets, mission \in Missions :
          FleetDispatch(u, target, mission)
    \/ \E u \in CommandUsers : FleetRecall(u)
    \/ \E d \in FlightSteps : Elapse(d, MaxFlightNow)
    \/ \E ok \in CreateColonyResults : WorldProcess(ok)
    \/ SavePlayerData
    \/ \E u \in CommandUsers : LoginReload(u)
    \/ \E d \in Downtimes : Restart(d, MaxFlightNow)

SpecFlight == InitFlight /\ [][NextFlight]_vars

\* ===================================================================
\* The dispatch and recall routes with their responses, on a process
\* running on a database, and the ticks of the simulation thread.
\* ===================================================================
Response(route, status) == [route |-> route, status |-> status, offer_id |-> 0]

\* _handle_update_activity for the command the routes queue after their own
Active(user_id) ==
    IF user_id \in entities THEN [last_active EXCEPT ![user_id] = now] ELSE last_active

\* POST /player/{user_id}/fleet/dispatch
DispatchFleet(user_id, target, mission) ==
    /\ requests < MaxCommands
    /\ requests' = requests + 1
    /\ IF target.galaxy <= 0 \/ target.system <= 0 \/ target.planet <= 0
       THEN /\ http' = Response("dispatch_fleet", 400)
            /\ UNCHANGED << movements, db_mission, last_active >>
       ELSE /\ HandleFleetDispatch(user_id, target, mission)
            /\ last_active' = Active(user_id)
            /\ http' = Response("dispatch_fleet", 200)
    /\ UNCHANGED << now, entities, resources, production, buildings, build_queue,
                    shipVars, position, planetVars, histVars, dbVars, issued,
                    command_queue, marketVars, pc, local, next_cmd_id, executed, ledger >>

\* POST /player/{user_id}/fleet/{fleet_id}/recall: the response is read from
\* the first FleetMovement of the player after the command has run
RecallFleet(user_id) ==
    /\ requests < MaxCommands
    /\ requests' = requests + 1
    /\ HandleFleetRecall(user_id)
    /\ last_active' = Active(user_id)
    /\ http' = IF /\ user_id \in entities
                  /\ movements'[user_id] # << >>
                  /\ Head(movements'[user_id]).recalled
               THEN Response("recall_fleet", 200)
               ELSE Response("recall_fleet", 400)
    /\ UNCHANGED << now, entities, resources, production, buildings, build_queue,
                    shipVars, position, planetVars, histVars, dbVars, issued,
                    command_queue, marketVars, pc, local, next_cmd_id, executed, ledger >>

NextRecall ==
    \/ \E u \in CommandUsers, target \in DispatchTargets, mission \in Missions :
          DispatchFleet(u, target, mission)
    \/ \E u \in CommandUsers : RecallFleet(u)
    \/ \E d \in FlightSteps : Elapse(d, MaxFlightNow)
    \/ \E ok \in CreateColonyResults : WorldProcess(ok)

SpecRecall == InitFlight /\ [][NextRecall]_vars

\* ===================================================================
\* build_ships executed by either thread. The route handler runs
\* _process_commands() on the request thread while the game loop runs it,
\* and World.process(), on the simulation thread; no lock covers the
\* handler, so it is split where it reads the fleet, where it reads the
\* queue, and where it appends.
\* ===================================================================
MaxShipNow == 1710
ShipSteps == {1710}

\* _handle_build_ships up to the sum over the Fleet fields
ShipsBegin(t, user_id, ship_type, qty) ==
    /\ pc[t] = "idle"
    /\ requests < MaxCommands
    /\ requests' = requests + 1
    /\ IF /\ user_id \in entities
          /\ ship_type \in DOMAIN fleet[user_id]
          /\ Attr(buildings[user_id], "shipyard") > 0
       THEN /\ pc' = [pc EXCEPT ![t] = "ships_fleet_read"]
            /\ local' = [local EXCEPT ![t] =
                            [user_id |-> user_id, ship_type |-> ship_type,
                             quantity |-> qty,
                             total_current |-> FleetTotal(fleet[user_id])]]
       ELSE UNCHANGED << pc, local >>
    /\ UNCHANGED << now, worldVars, cmdVars, dbVars, issued, command_queue, marketVars,
                    http, next_cmd_id, executed, ledger >>

\* ... from the sum over the queued items to the queue length check
ShipsReadQueue(t) ==
    /\ pc[t] = "ships_fleet_read"
    /\ LET c == local[t]
           total_current == c.total_current + SumCounts(ship_queue[c.user_id])
           p == ShipPlan(c.user_id, c.ship_type, c.quantity)
           paid == /\ ShipsValidated(c.user_id, c.ship_type, c.quantity, total_current)
                   /\ Affordable(resources[c.user_id], p.total_cost)
           proceed == /\ paid
                      /\ Len(ship_queue[c.user_id])
                            < QueueLimit(Attr(buildings[c.user_id], "shipyard"))
       IN  /\ resources' = IF paid
                           THEN [resources EXCEPT ![c.user_id] = Spend(@, p.total_cost)]
                           ELSE resources
           /\ pc' = [pc EXCEPT ![t] = IF proceed THEN "ships_append" ELSE "idle"]
           /\ local' = IF proceed THEN local ELSE [local EXCEPT ![t] = InitLocal]
    /\ UNCHANGED << now, production, buildings, build_queue, last_active, cmdVars,
                    dbVars, issued, command_queue, marketVars, http, requests,
                    next_cmd_id, executed, ledger >>

\* ... ship_queue.items.append
ShipsAppend(t) ==
    /\ pc[t] = "ships_append"
    /\ LET c == local[t]
           p == ShipPlan(c.user_id, c.ship_type, c.quantity)
       IN  ship_queue' = [ship_queue EXCEPT ![c.user_id] =
                Append(@, [type |-> c.ship_type, count |-> p.quantity,
                           completion_time |-> now + p.duration,
                           cost |-> p.total_cost, seq |-> next_seq])]
    /\ next_seq' = next_seq + 1
    /\ pc' = [pc EXCEPT ![t] = "idle"]
    /\ local' = [local EXCEPT ![t] = InitLocal]
    /\ UNCHANGED << now, worldVars, entities, research, research_queue, fleet,
                    flightVars, planetVars, ws_sent, completions, dbVars, issued,
                    command_queue, marketVars, http, requests, next_cmd_id, executed,
                    ledger >>

\* World.process() on the simulation thread between two of its commands
SimPass(ok) ==
    /\ pc["sim"] = "idle"
    /\ WorldProcess(ok)

\* player 10 has registered on a process without a database
InitShip ==
    /\ now = 0
    /\ entities = {10}
    /\ resources = [u \in Users |-> IF u = 10 THEN RegisteredResources ELSE ZeroAmounts]
    /\ production = [u \in Users |-> NewProduction(0)]
    /\ buildings = [u \in Users |-> IF u = 10 THEN RegisteredBuildings ELSE NewBuildings]
    /\ build_queue = [u \in Users |-> << >>]
    /\ last_active = [u \in Users |-> 0]
    /\ command_queue = << >>
    /\ market_offers = << >>
    /\ next_offer_id = 1
    /\ trade_history = << >>
    /\ next_trade_event_id = 1
    /\ fee_rate = 0
    /\ pc = [t \in Threads |-> "idle"]
    /\ local = [t \in Threads |-> InitLocal]
    /\ http = NoResponse
    /\ requests = 0
    /\ next_cmd_id = 1
    /\ executed = << >>
    /\ ledger = [u \in Users |-> ZeroAmounts]
    /\ db_enabled = FALSE
    /\ require_start_choice = FALSE
    /\ InitLoop
    /\ db_offers = {}
    /\ db_event_max = 0
    /\ hydration = "none"
    /\ hydrate_max = NoMax
    /\ issued = << >>
    /\ db_initial_ids = {}
    /\ InitComponents

NextShip ==
    \/ \E t \in Threads, s \in ShipInputs : ShipsBegin(t, 10, s.ship_type, s.quantity)
    \/ \E t \in Threads : ShipsReadQueue(t)
    \/ \E t \in Threads : ShipsAppend(t)
    \/ \E ok \in CreateColonyResults : SimPass(ok)
    \/ \E d \in ShipSteps : Elapse(d, MaxShipNow)

SpecShip == InitShip /\ [][NextShip]_vars

\* ------------------------------------------------------------ properties
InPass(t) == pc[t] \in {"process", "prod_write"}
InDrain(t) == pc[t] \in {"drain", "exec"}
Range(f) == {f[i] : i \in DOMAIN f}

RECURSIVE EscrowUpTo(_, _, _)
EscrowUpTo(u, r, n) ==
    IF n = 0 THEN 0
    ELSE EscrowUpTo(u, r, n - 1)
         + (IF /\ market_offers[n].status = "open"
               /\ market_offers[n].seller_user_id = u
               /\ market_offers[n].offered_resource = r
            THEN market_offers[n].offered_amount ELSE 0)

\* what user u holds in escrow for open offers of resource r
Escrow(u, r) == EscrowUpTo(u, r, Len(market_offers))

\* C1: the request thread never runs the command drain or a system pass; it
\* only enqueues, reads, or performs marketplace operations, all of which
\* leave it outside _process_commands and World.process.
C1_RequestThreadNeverDrainsOrProcesses ==
    ~InDrain("req") /\ ~InPass("req")

\* C2: commands are executed in the order they were enqueued, and whenever a
\* system runs in a tick every command enqueued before that tick began has
\* already been executed.
C2_DrainedInFifoOrderBeforeSystems ==
    /\ \A i, j \in DOMAIN executed : i < j => executed[i] < executed[j]
    /\ \A t \in Threads :
          InPass(t) => \A id \in 1..(local[t].mark - 1) : id \in Range(executed)

\* C3: in every pass the systems run once each in the fixed order
\* ResourceProduction, BuildingConstruction, PlayerActivity, Research,
\* Shipyard, FleetMovement, Battle, and no two passes overlap.
C3_FixedOrderAndNoOverlap ==
    LET order == << "ResourceProductionSystem", "BuildingConstructionSystem",
                    "PlayerActivitySystem", "ResearchSystem", "ShipyardSystem",
                    "FleetMovementSystem", "BattleSystem" >>
    IN  /\ \A t \in Threads :
              InPass(t) => /\ local[t].sys \in 1..Len(order)
                           /\ Processors[local[t].sys] = order[local[t].sys]
        /\ ~(InPass("sim") /\ InPass("req"))

\* C4: within one pass, production for an entity is computed from its
\* building levels before that pass completes any construction for it.
C4_ProductionBeforeCompletion ==
    \A t \in Threads :
        pc[t] = "prod_write" => EntityOrder[local[t].ent] \notin local[t].gained

\* a pass credited user 10 at metal_mine level 1 (11 metal for one hour) and
\* then completed the upgrade to level 2
C4_Witness ==
    \E t \in Threads :
        /\ 10 \in local[t].gained
        /\ 10 \in local[t].credited
        /\ buildings[10].metal_mine = 2
        /\ ledger[10].metal = 1011

\* C5: for every player and resource, balance plus the escrow of the player's
\* open offers equals the balance the player would hold without those offers.
C5_EscrowInvariant ==
    \A u \in Users, r \in ResourceNames :
        resources[u][r] + Escrow(u, r) = ledger[u][r]

\* C9: a production pass never writes back a balance snapshot that a
\* marketplace operation has changed in the meantime.
C9_NoMarketUpdateOverwritten ==
    \A t \in Threads :
        (pc[t] = "prod_write" /\ local[t].add # ZeroAmounts) => ~local[t].touched

\* total supply of resource r: all balances plus all open escrows
TotalSupply(r) ==
    LET us == EntityOrder
    IN  resources[us[1]][r] + resources[us[2]][r] + Escrow(us[1], r) + Escrow(us[2], r)

AcceptSucceeds(u, oid) ==
    (\E db_ok \in BOOLEAN : AcceptTradeOffer(u, oid, db_ok)) /\ http'.status = 200

\* what an accepted offer moves, given the amount the seller is credited
AcceptMoves(u, o, seller_gets) ==
    /\ \A r \in ResourceNames :
          resources'[u][r] = resources[u][r]
                + (IF r = o.offered_resource THEN o.offered_amount ELSE 0)
                - (IF r = o.requested_resource THEN o.requested_amount ELSE 0)
    /\ \A r \in ResourceNames :
          resources'[o.seller_user_id][r] = resources[o.seller_user_id][r]
                + (IF r = o.requested_resource THEN seller_gets ELSE 0)
    /\ \A r \in ResourceNames :
          TotalSupply(r)' = TotalSupply(r)
                - (IF r = o.requested_resource
                   THEN o.requested_amount - seller_gets ELSE 0)

\* C6 (as stated): an accept moves exactly the requested amount from the
\* buyer, credits the seller requested * (1 - fee), hands the buyer the
\* escrowed amount, and changes total supply only by the fee.
C6_SellerReceivesExactShare ==
    [][\A u \in Users, oid \in OfferIds :
          AcceptSucceeds(u, oid) =>
             LET o == market_offers[FindOffer(oid)]
             IN  \E seller_gets \in 0..o.requested_amount :
                    /\ FeeDen * seller_gets = o.requested_amount * (FeeDen - fee_rate)
                    /\ AcceptMoves(u, o, seller_gets)]_vars

\* C6 (amended): as above, but the fee is int(requested * fee), rounded down,
\* and the seller is credited the requested amount minus that fee.
C6_SellerReceivesRequestedMinusTruncatedFee ==
    [][\A u \in Users, oid \in OfferIds :
          AcceptSucceeds(u, oid) =>
             LET o == market_offers[FindOffer(oid)]
                 fee == (o.requested_amount * fee_rate) \div FeeDen
             IN  AcceptMoves(u, o, o.requested_amount - fee)]_vars

\* an offer has been accepted under a fee rate that does not divide the price
C6_Witness ==
    /\ fee_rate = 1
    /\ \E i \in DOMAIN market_offers :
          /\ market_offers[i].status = "accepted"
          /\ (market_offers[i].requested_amount * fee_rate) % FeeDen # 0
    /\ \E i \in DOMAIN trade_history : trade_history[i].type = "trade_completed"

RequestRejected == requests' = requests + 1 /\ http'.status = 400

\* C7: an accept succeeds only for an open offer, a buyer other than the
\* seller, and a buyer holding the requested amount; a create succeeds only
\* for valid resource names, positive amounts and a sufficient balance; a
\* rejected request changes no balance, offer, trade event or id counter.
C7_RejectedRequestsChangeNothing ==
    [][/\ \A u \in Users, oid \in OfferIds :
             AcceptSucceeds(u, oid) =>
                \E i \in DOMAIN market_offers :
                   /\ market_offers[i].id = oid
                   /\ market_offers[i].status = "open"
                   /\ market_offers[i].seller_user_id # u
                   /\ resources[u][market_offers[i].requested_resource]
                          >= market_offers[i].requested_amount
       /\ \A u \in Users, in \in OfferInputs :
             ((\E db_ok \in BOOLEAN : CreateTradeOffer(u, in, db_ok)) /\ http'.status = 200) =>
                /\ Lower(in.offered_resource) \in {"metal", "crystal", "deuterium"}
                /\ Lower(in.requested_resource) \in {"metal", "crystal", "deuterium"}
                /\ in.offered_amount > 0 /\ in.requested_amount > 0
                /\ resources[u][Lower(in.offered_resource)] >= in.offered_amount
       /\ RequestRejected =>
             UNCHANGED << resources, market_offers, trade_history,
                          next_offer_id, next_trade_event_id >>]_vars

\* a request has just been rejected while an open offer and its escrow exist
C7_Witness ==
    /\ http.status = 400
    /\ http.route = "create_trade_offer"
    /\ \E i \in DOMAIN market_offers : market_offers[i].status = "open"

\* C8: once an offer is accepted it stays accepted by the same buyer, and
\* every later accept of it is rejected with 400 and transfers nothing; no
\* offer has two trade_completed events.
C8_AcceptedAtMostOnce ==
    [][/\ \A i \in DOMAIN market_offers :
             market_offers[i].status = "accepted" =>
                /\ i \in DOMAIN market_offers'
                /\ market_offers'[i] = market_offers[i]
                /\ \A u \in Users :
                      (\E db_ok \in BOOLEAN : AcceptTradeOffer(u, market_offers[i].id, db_ok)) =>
                         /\ http'.status = 400
                         /\ UNCHANGED << resources, market_offers, trade_history >>
       /\ \A i, j \in DOMAIN trade_history' :
             ( /\ trade_history'[i].type = "trade_completed"
               /\ trade_history'[j].type = "trade_completed"
               /\ trade_history'[i].offer_id = trade_history'[j].offer_id ) => i = j]_vars

\* an accepted offer was the target of a further accept, which got 400
C8_Witness ==
    /\ http.status = 400
    /\ http.route = "accept_trade_offer"
    /\ \E i \in DOMAIN market_offers :
          /\ market_offers[i].id = http.offer_id
          /\ market_offers[i].status = "accepted"
          /\ market_offers[i].accepted_by # 0

\* C10: offer ids handed out by the process strictly increase, and none of
\* them equals the id of an offer that already exists in the database.
C10_OfferIdsIncreaseAndNeverCollide ==
    /\ \A i, j \in DOMAIN issued : i < j => issued[i] < issued[j]
    /\ \A i \in DOMAIN issued : issued[i] \notin db_initial_ids

\* ===================================================================
\* Properties of the commands, queues and flights
\* ===================================================================
StorageOf ==
    [metal |-> "metal_storage", crystal |-> "crystal_storage",
     deuterium |-> "deuterium_tank"]

\* C11: every resource amount of every entity is at least 0 and at most the
\* storage capacity given by its storage building levels and planet size,
\* after any mix of ticks and accepted commands.
C11_ResourcesWithinCapacity ==
    \A e \in entities : \A r \in ResourceNames :
        /\ resources[e][r] >= 0
        /\ resources[e][r] <= Capacity(r, Level(buildings[e], StorageOf[r]))

\* what a command of a player can change of the entities
entityState ==
    << resources, build_queue, research_queue, ship_queue, buildings, research, fleet >>

\* C15: a command that validation rejects (unknown type, prerequisites
\* unmet, fleet cap exceeded, shipyard queue limit reached, insufficient
\* resources) leaves the resources, queues, building levels, research
\* levels and fleet of every entity exactly as they were.
C15_RejectedCommandsChangeNothing ==
    [][\A u \in CommandUsers :
          /\ \A b \in BuildingInputs :
                (BuildBuilding(u, b) /\ ~BuildAccepted(u, b)) => UNCHANGED entityState
          /\ \A b \in DemolishInputs :
                (DemolishBuilding(u, b) /\ ~DemolishAccepted(u, b)) => UNCHANGED entityState
          /\ \A r \in ResearchInputs :
                (StartResearch(u, r) /\ ~ResearchAccepted(u, r)) => UNCHANGED entityState
          /\ \A s \in ShipInputs :
                (BuildShips(u, s.ship_type, s.quantity)
                    /\ ~ShipsQueued(u, s.ship_type, s.quantity))
                => UNCHANGED entityState]_vars

\* C16: in every build, research and ship queue the completions happen in
\* submission order, and every completed submission had exactly its one
\* effect (one level gained, or `count` ships added).
C16_CompletionsInOrderExactlyOnce ==
    /\ \A i \in DOMAIN completions : completions[i].effect = completions[i].expected
    /\ \A i, j \in DOMAIN completions :
          ( /\ i < j
            /\ completions[i].user = completions[j].user
            /\ completions[i].queue = completions[j].queue )
          => completions[i].seq < completions[j].seq

SortedByCompletion(q) ==
    \A i, j \in DOMAIN q : i < j => q[i].completion_time <= q[j].completion_time

\* C17: after every completed tick the items of every build, research and
\* ship queue are in non-decreasing order of completion_time.
C17_QueuesSortedAfterTick ==
    [][(\E ok \in CreateColonyResults : WorldProcess(ok)) =>
          \A e \in entities :
             /\ SortedByCompletion(build_queue'[e])
             /\ SortedByCompletion(research_queue'[e])
             /\ SortedByCompletion(ship_queue'[e])]_vars

DueItems(q, t) == SelectSeq(q, LAMBDA item : item.completion_time <= t)
OfType(q, ship_type) == SelectSeq(q, LAMBDA item : item.type = ship_type)

\* C18: one tick completes every item of an entity's ship queue whose
\* completion_time <= now (its count is added to its ship type and the item
\* is removed) and sends exactly one ship_build_complete_batch event for
\* the entity, or none when nothing completed.
C18_ShipyardCompletesAllDueItems ==
    [][(\E ok \in CreateColonyResults : WorldProcess(ok)) =>
          \A e \in entities :
             /\ ship_queue'[e] =
                    SelectSeq(ship_queue[e], LAMBDA item : item.completion_time > now)
             /\ \A s \in ShipTypes :
                   fleet'[e][s] =
                       fleet[e][s] + SumCounts(OfType(DueItems(ship_queue[e], now), s))
             /\ ws_sent'[e] = IF DueItems(ship_queue[e], now) # << >> THEN 1 ELSE 0]_vars

\* C12: ResourceProduction.last_update of an entity never moves to an
\* earlier time, whether by a tick, by offline accrual or by the reload of
\* a player who is already loaded.
C12_LastUpdateNeverDecreases ==
    [][\A e \in entities :
          production'[e].last_update >= production[e].last_update]_vars

\* C19: an entity never has more than one FleetMovement attached, after any
\* sequence of dispatch, recall, hydration and ticks.
C19_AtMostOneMovement ==
    \A e \in entities : Len(movements[e]) <= 1

\* C20: every attached FleetMovement has arrival_time >= departure_time,
\* and the target of a recalled movement is its origin; after dispatch,
\* after recall, during the colonization phase and after hydration.
C20_MovementTimesAndRecallTarget ==
    \A e \in entities : \A i \in DOMAIN movements[e] :
        /\ movements[e][i].arrival_time >= movements[e][i].departure_time
        /\ movements[e][i].recalled => movements[e][i].target = movements[e][i].origin

\* a colonize mission was dispatched, reached its target, entered the
\* colonization phase and was then recalled
C20_Witness ==
    \E e \in entities : \E i \in DOMAIN movements[e] :
        /\ movements[e][i].recalled
        /\ movements[e][i].colonizing
        /\ movements[e][i].mission = "colonize"

\* C13: for every fleet, ships owned plus ships queued never exceed
\* BASE_MAX_FLEET_SIZE + FLEET_SIZE_PER_COMPUTER_LEVEL * computer level,
\* whatever commands and ticks have run.
C13_FleetWithinCap ==
    \A e \in entities :
        FleetTotal(fleet[e]) + SumCounts(ship_queue[e]) <= MaxAllowed(research[e])

\* C14: the ship build queue of an entity never holds more than
\* SHIPYARD_QUEUE_BASE_LIMIT + SHIPYARD_QUEUE_PER_LEVEL * shipyard level
\* entries, whatever build_ships commands and ticks have run.
C14_ShipQueueWithinLimit ==
    \A e \in entities :
        Len(ship_queue[e]) <= QueueLimit(Attr(buildings[e], "shipyard"))

\* a step in which the first movement of e becomes recalled
RecallApplied(e) ==
    /\ movements[e] # << >>
    /\ movements'[e] # << >>
    /\ ~Head(movements[e]).recalled
    /\ Head(movements'[e]).recalled

\* C21 as stated: a recall at now < arrival_time of a movement not yet
\* recalled sets target to the origin, recalled, departure to now and arrival
\* to now + (now - old departure), the time already flown.
C21_ReturnLegEqualsElapsed ==
    [][\A e \in entities :
          RecallApplied(e) =>
             LET old == Head(movements[e])
                 new == Head(movements'[e])
             IN  /\ now < old.arrival_time
                 /\ new.target = old.origin
                 /\ new.departure_time = now
                 /\ new.arrival_time = now + (now - old.departure_time)]_vars

\* C21 amended: the return leg lasts the whole seconds already flown, but
\* never less than one second.
C21_ReturnLegAtLeastOneSecond ==
    [][\A e \in entities :
          RecallApplied(e) =>
             LET old == Head(movements[e])
                 new == Head(movements'[e])
             IN  /\ now < old.arrival_time
                 /\ new.target = old.origin
                 /\ new.departure_time = now
                 /\ new.arrival_time = now + Max(1, now - old.departure_time)]_vars

C21_Witness ==
    \E e \in entities :
        /\ movements[e] # << >>
        /\ Head(movements[e]).recalled
        /\ Head(movements[e]).departure_time = 2
        /\ Head(movements[e]).arrival_time = 4

\* a step of the recall route for user u
RecallRequest(u) ==
    /\ requests' = requests + 1
    /\ http'.route = "recall_fleet"

\* C22: recalling an already recalled movement reports success and changes
\* no field of the movement; recalling a movement whose arrival_time has
\* passed is answered with HTTP 400 and changes nothing.
C22_RecallIdempotentAndRejectedAfterArrival ==
    [][\A u \in CommandUsers :
          (RecallRequest(u) /\ movements[u] # << >>) =>
             LET mv == Head(movements[u])
             IN  /\ (mv.recalled /\ now < mv.arrival_time) =>
                        (http'.status = 200 /\ movements'[u] = movements[u])
                 /\ now >= mv.arrival_time =>
                        /\ http'.status = 400
                        /\ UNCHANGED << movements, position, db_mission, fleet >>]_vars

\* a step of World.process()
TickStep == \E ok \in CreateColonyResults : WorldProcess(ok)

\* C24: for a movement whose mission is not colonize, a tick with
\* now >= arrival_time sets Position to the movement's target, detaches the
\* movement and deletes the mission row; a tick with now < arrival_time
\* neither changes Position nor detaches the movement.
C24_ArrivalMovesAndDetaches ==
    [][TickStep =>
          \A e \in entities : \A i \in DOMAIN movements[e] :
             LET mv == movements[e][i]
                 attached(ms) == Cardinality({j \in DOMAIN ms : ms[j] = mv})
             IN  mv.mission # "colonize" =>
                    IF now >= mv.arrival_time
                    THEN /\ position'[e] = mv.target
                         /\ attached(movements'[e]) < attached(movements[e])
                         /\ ~db_mission'[e].present
                    ELSE /\ position'[e] = position[e]
                         /\ attached(movements'[e]) = attached(movements[e])]_vars

\* identity of a movement through the phases of its mission
FlightKey(mv) == << mv.origin, mv.target, mv.mission, mv.departure_time, mv.recalled >>
Attached(ms, mv) == Cardinality({j \in DOMAIN ms : FlightKey(ms[j]) = FlightKey(mv)})

\* C25: a colonize mission that is not recalled is two-phase. A tick before
\* arrival leaves it alone; at first arrival without a colony_ship it is
\* detached and its row deleted; with a colony_ship the colonization phase
\* of COLONIZATION_TIME_SECONDS starts and the movement stays attached; a
\* tick at or after the end of that phase takes exactly one colony_ship and
\* detaches the movement.
C25_ColonizeIsTwoPhase ==
    [][TickStep =>
          \A e \in entities : \A i \in DOMAIN movements[e] :
             LET mv == movements[e][i]
                 phase_end == IF mv.colonizing THEN mv.arrival_time
                              ELSE mv.arrival_time + COLONIZATION_TIME_SECONDS
                 stays == Attached(movements'[e], mv) = Attached(movements[e], mv)
                 detached == Attached(movements'[e], mv) < Attached(movements[e], mv)
                 ships == fleet[e].colony_ship
             IN  (mv.mission = "colonize" /\ ~mv.recalled) =>
                    IF now < mv.arrival_time
                    THEN stays /\ fleet'[e].colony_ship = ships
                    ELSE IF ~mv.colonizing /\ ships <= 0
                    THEN detached /\ fleet'[e].colony_ship = ships
                    ELSE IF now < phase_end
                    THEN stays /\ fleet'[e].colony_ship = ships
                    ELSE detached /\ fleet'[e].colony_ship = ships - 1]_vars

\* ===================================================================
\* Offline accrual against the online production tick: a process whose
\* player 10 has any of a few building levels and balances, the clock,
\* the tick of the simulation thread and the accrual pass of the startup.
\* ===================================================================
MaxAccrualNow == 1800
AccrualSteps == {600}
\* levels the six fields of Buildings can hold; the last needs more energy
\* than its solar plant produces
AccrualBuildings ==
    { NewBuildings,
      [NewBuildings EXCEPT !.solar_plant = 0],
      [NewBuildings EXCEPT !.metal_mine = 0, !.crystal_mine = 2],
      [NewBuildings EXCEPT !.metal_mine = 3, !.crystal_mine = 3,
                           !.deuterium_synthesizer = 3] }
\* balances far from, just below, at and above the capacity of level 0
AccrualResources ==
    { [metal |-> m, crystal |-> 300, deuterium |-> d] :
        m \in {500, 99995, 100000, 100003}, d \in {100, 49999} }

\* GameWorld._apply_offline_resource_accrual: every entity whose last_update
\* lies in the past is credited and stamped
ApplyOfflineResourceAccrual ==
    /\ requests < MaxCommands
    /\ requests' = requests + 1
    /\ LET seconds == [e \in Users |-> now - production[e].last_update]
       IN  /\ resources' = [e \in Users |->
                               IF e \in entities /\ seconds[e] > 0
                               THEN OfflineAccrual(resources[e], production[e],
                                                   buildings[e], seconds[e])
                               ELSE resources[e]]
           /\ production' = [e \in Users |->
                               IF e \in entities /\ seconds[e] > 0
                               THEN [production[e] EXCEPT !.last_update = now]
                               ELSE production[e]]
    /\ UNCHANGED << now, entities, buildings, build_queue, last_active, shipVars,
                    flightVars, planetVars, histVars, dbVars, issued, command_queue,
                    marketVars, pc, local, http, next_cmd_id, executed, ledger >>

InitAccrual ==
    /\ now = 0
    /\ entities = Users
    /\ \E r \in AccrualResources :
          resources = [u \in Users |-> IF u = 10 THEN r ELSE PlanetRowResources]
    /\ production = [u \in Users |-> NewProduction(0)]
    /\ \E b \in AccrualBuildings :
          buildings = [u \in Users |-> IF u = 10 THEN b ELSE NewBuildings]
    /\ build_queue = [u \in Users |-> << >>]
    /\ last_active = [u \in Users |-> 0]
    /\ command_queue = << >>
    /\ market_offers = << >>
    /\ next_offer_id = 1
    /\ trade_history = << >>
    /\ next_trade_event_id = 1
    /\ fee_rate = 0
    /\ pc = [t \in Threads |-> "idle"]
    /\ local = [t \in Threads |-> InitLocal]
    /\ http = NoResponse
    /\ requests = 0
    /\ next_cmd_id = 1
    /\ executed = << >>
    /\ ledger = [u \in Users |-> ZeroAmounts]
    /\ db_enabled = TRUE
    /\ require_start_choice = FALSE
    /\ InitLoop
    /\ db_offers = {}
    /\ db_event_max = 0
    /\ hydration = "none"
    /\ hydrate_max = NoMax
    /\ issued = << >>
    /\ db_initial_ids = {}
    /\ research = [u \in Users |-> NewResearch]
    /\ research_queue = [u \in Users |-> << >>]
    /\ ship_queue = [u \in Users |-> << >>]
    /\ fleet = [u \in Users |-> NewFleet]
    /\ position = [u \in Users |-> NewPosition]
    /\ movements = [u \in Users |-> << >>]
    /\ db_planet = [u \in Users |-> NewPlanetRow(0)]
    /\ last_persist = {}
    /\ db_planets = {PlanetAt(u, NewPosition) : u \in Users}
    /\ db_ship_queue = [u \in Users |-> << >>]
    /\ db_fleet = fleet
    /\ db_mission = [u \in Users |-> NoMission]
    /\ ws_sent = [u \in Users |-> 0]
    /\ completions = << >>
    /\ next_seq = 1

NextAccrual ==
    \/ \E d \in AccrualSteps : Elapse(d, MaxAccrualNow)
    \/ \E ok \in CreateColonyResults : WorldProcess(ok)
    \/ ApplyOfflineResourceAccrual

SpecAccrual == InitAccrual /\ [][NextAccrual]_vars

C28_OverdueMissionFinalizedAtStartup ==
    [][\A d \in Downtimes :
          Restart(d, MaxFlightNow) =>
              \A e \in entities' :
                  LET h == HydrateMission(db_planet'[e].coords, << >>, db_mission[e], now')
                  IN  (db_mission[e].present /\ now' >= db_mission[e].arrival_time) =>
                          /\ position'[e] = h.position
                          /\ db_mission'[e] = h.row
                          /\ movements'[e] = h.movements]_vars

\* C30: stopping the server, with its final save, and starting it again
\* gives every player back as they were before the stop: same position,
\* levels, research, fleet, queues and movement, and the resources of
\* before the stop advanced by the offline accrual over the time since the
\* last production update.
C30_RestartReproducesSnapshot ==
    [][\A d \in Downtimes :
          Restart(d, MaxFlightNow) =>
              \A e \in entities :
                  LET seconds == now' - production[e].last_update
                  IN  /\ e \in entities'
                      /\ position'[e] = position[e]
                      /\ buildings'[e] = buildings[e]
                      /\ research'[e] = research[e]
                      /\ fleet'[e] = fleet[e]
                      /\ build_queue'[e] = build_queue[e]
                      /\ ship_queue'[e] = ship_queue[e]
                      /\ research_queue'[e] = research_queue[e]
                      /\ movements'[e] = movements[e]
                      /\ resources'[e] =
                            IF seconds > 0
                            THEN OfflineAccrual(resources[e], production[e], buildings[e], seconds)
                            ELSE resources[e]]_vars

\* C23: once a mission has been recalled (its fleet_missions row is the
\* return leg, whose target is the origin of the dispatch), the tick that
\* runs at or after the return ETA leaves the entity at that origin with no
\* FleetMovement attached, whether or not the server was stopped and started
\* in between.
C23_RecalledFleetReturnsToOrigin ==
    [][\A ok \in CreateColonyResults :
          WorldProcess(ok) =>
              \A e \in entities :
                  (/\ db_mission[e].present
                   /\ db_mission[e].recalled
                   /\ now >= db_mission[e].arrival_time) =>
                      /\ position'[e] = db_mission[e].target
                      /\ movements'[e] = << >>]_vars

\* ===================================================================
\* The shipyard of a process running on a database, across a stop and a
\* start of the server.
\* ===================================================================
MaxYardNow == 60
YardSteps == {30}
YardShips == {"light_fighter", "colony_ship"}
YardQuantities == {1}
\* player 10 has built a shipyard and gathered the price of a few ships
YardBuildings == [NewBuildings EXCEPT !.shipyard = 1]
YardResources == [metal |-> 1500, crystal |-> 800, deuterium |-> 100]

\* the server runs on a database in which the rows of both players agree
\* with their entities
InitYard ==
    /\ now = 0
    /\ entities = Users
    /\ resources = [u \in Users |-> IF u = 10 THEN YardResources ELSE PlanetRowResources]
    /\ production = [u \in Users |-> NewProduction(0)]
    /\ buildings = [u \in Users |-> IF u = 10 THEN YardBuildings ELSE NewBuildings]
    /\ build_queue = [u \in Users |-> << >>]
    /\ last_active = [u \in Users |-> 0]
    /\ command_queue = << >>
    /\ market_offers = << >>
    /\ next_offer_id = 1
    /\ trade_history = << >>
    /\ next_trade_event_id = 1
    /\ fee_rate = 0
    /\ pc = [t \in Threads |-> "idle"]
    /\ local = [t \in Threads |-> InitLocal]
    /\ http = NoResponse
    /\ requests = 0
    /\ next_cmd_id = 1
    /\ executed = << >>
    /\ ledger = [u \in Users |-> ZeroAmounts]
    /\ db_enabled = TRUE
    /\ require_start_choice = FALSE
    /\ InitLoop
    /\ db_offers = {}
    /\ db_event_max = 0
    /\ hydration = "none"
    /\ hydrate_max = NoMax
    /\ issued = << >>
    /\ db_initial_ids = {}
    /\ research = [u \in Users |-> NewResearch]
    /\ research_queue = [u \in Users |-> << >>]
    /\ ship_queue = [u \in Users |-> << >>]
    /\ fleet = [u \in Users |-> NewFleet]
    /\ position = [u \in Users |-> NewPosition]
    /\ movements = [u \in Users |-> << >>]
    /\ db_planet = [u \in Users |-> [NewPlanetRow(0) EXCEPT !.resources = resources[u]]]
    /\ last_persist = {}
    /\ db_planets = {PlanetAt(u, NewPosition) : u \in Users}
    /\ db_ship_queue = [u \in Users |-> << >>]
    /\ db_fleet = fleet
    /\ db_mission = [u \in Users |-> NoMission]
    /\ ws_sent = [u \in Users |-> 0]
    /\ completions = << >>
    /\ next_seq = 1

NextYard ==
    \/ \E u \in CommandUsers, s \in YardShips, q \in YardQuantities : BuildShips(u, s, q)
    \/ \E d \in YardSteps : Elapse(d, MaxYardNow)
    \/ \E ok \in CreateColonyResults : WorldProcess(ok)
    \/ SavePlayerData
    \/ \E d \in Downtimes : Restart(d, MaxYardNow)

SpecYard == InitYard /\ [][NextYard]_vars

\* C29: when the server starts, every pending ship_build_queue row whose
\* completion_time has passed is applied once: its count is added to the
\* fleet the player is loaded with and the row is no longer pending.
C29_OverdueShipBuildsAppliedAtStartup ==
    [][\A d \in Downtimes :
          Restart(d, MaxYardNow) =>
              \A e \in entities' :
                  LET due == DueItems(db_ship_queue[e], now')
                  IN  /\ \A s \in ShipTypes :
                            fleet'[e][s] = db_fleet[e][s] + SumCounts(OfType(due, s))
                      /\ db_ship_queue'[e] =
                            SelectSeq(db_ship_queue[e],
                                      LAMBDA row : row.completion_time > now')]_vars

\* ===================================================================
\* The planets table: registration, the choice of a starting planet, the
\* colonize command, the missions and the saves of a process running on a
\* database.
\* ===================================================================
MaxPlanetsNow == 6
\* coordinates asked for by choose-start and by the colonize command
StartChoices == DispatchTargets \cup {NewPosition}
\* the target of the missions: the planet next to the home planets
FreeTargets == {[galaxy |-> 1, system |-> 2, planet |-> 1]}

Occupied(rows, coords) == \E r \in rows : r.coords = coords
OwnsPlanet(rows, owner_id) == \E r \in rows : r.owner_id = owner_id

\* sync._load_player_into_world for a user who has no entity yet: the entity
\* is created from the planet row; res and prod are the Resources and
\* ResourceProduction components of the other entities
EnterWorld(user_id, planet, res, prod) ==
    /\ entities' = entities \cup {user_id}
    /\ position' = [position EXCEPT ![user_id] = planet.coords]
    /\ resources' = [res EXCEPT ![user_id] = planet.resources]
    /\ production' = [prod EXCEPT ![user_id] = NewProduction(planet.last_update)]
    /\ buildings' = [buildings EXCEPT ![user_id] = NewBuildings]
    /\ build_queue' = [build_queue EXCEPT ![user_id] = << >>]
    /\ ship_queue' = [ship_queue EXCEPT ![user_id] = << >>]
    /\ research_queue' = [research_queue EXCEPT ![user_id] = << >>]
    /\ fleet' = [fleet EXCEPT ![user_id] = db_fleet[user_id]]
    /\ research' = [research EXCEPT ![user_id] = NewResearch]
    /\ last_active' = [last_active EXCEPT ![user_id] = now]
    /\ movements' = [movements EXCEPT ![user_id] = << >>]

\* POST /auth/register on a database. With REQUIRE_START_CHOICE the handler
\* writes the users row only, which this model does not hold; without it the
\* user gets a planet row at (1,1,1) and is loaded into the World.
RegisterDb(user_id) ==
    /\ db_enabled
    /\ ~require_start_choice
    /\ requests < MaxCommands
    /\ requests' = requests + 1
    /\ user_id \notin entities
    /\ ~db_planet[user_id].present
    /\ db_planet' = [db_planet EXCEPT ![user_id] = NewPlanetRow(now)]
    /\ db_planets' = db_planets \cup {PlanetAt(user_id, NewPosition)}
    /\ EnterWorld(user_id, NewPlanetRow(now), resources, production)
    /\ UNCHANGED << now, db_mission, last_persist, db_ship_queue, db_fleet, histVars,
                    dbVars, issued, command_queue, marketVars, pc, local, http,
                    next_cmd_id, executed, ledger >>

\* POST /player/{user_id}/choose-start on a database, by a registered user:
\* 400 outside the galaxy or when the user owns a planet, 409 when the
\* position is occupied; otherwise the planet row is written and
\* load_player_data(user_id) credits the offline accrual of the entities in
\* the World and loads the user
ChooseStart(user_id, coords) ==
    /\ db_enabled
    /\ requests < MaxCommands
    /\ requests' = requests + 1
    /\ require_start_choice \/ db_planet[user_id].present
    /\ IF coords.galaxy < 1 \/ coords.system < 1 \/ coords.planet < 1
          \/ OwnsPlanet(db_planets, user_id)
       THEN /\ http' = Response("choose_start", 400)
            /\ UNCHANGED << cmdVars, worldVars >>
       ELSE IF Occupied(db_planets, coords)
       THEN /\ http' = Response("choose_start", 409)
            /\ UNCHANGED << cmdVars, worldVars >>
       ELSE LET planet == [NewPlanetRow(now) EXCEPT !.coords = coords]
                seconds == [e \in Users |-> now - production[e].last_update]
                res == [e \in Users |->
                          IF e \in entities /\ seconds[e] > 0
                          THEN OfflineAccrual(resources[e], production[e],
                                              buildings[e], seconds[e])
                          ELSE resources[e]]
                prod == [e \in Users |->
                           IF e \in entities /\ seconds[e] > 0
                           THEN [production[e] EXCEPT !.last_update = now]
                           ELSE production[e]]
            IN  /\ http' = Response("choose_start", 200)
                /\ db_planet' = [db_planet EXCEPT ![user_id] = planet]
                /\ db_planets' = db_planets \cup {PlanetAt(user_id, coords)}
                /\ EnterWorld(user_id, planet, res, prod)
                /\ UNCHANGED << db_mission, last_persist, db_ship_queue, db_fleet,
                                histVars >>
    /\ UNCHANGED << now, dbVars, issued, command_queue, marketVars, pc, local,
                    next_cmd_id, executed, ledger >>

\* _execute_command for a colonize command (_handle_colonize): create_colony
\* answers before the planets table has been read, so the colony ship is
\* taken whether or not the row is written
Colonize(user_id, coords) ==
    /\ requests < MaxCommands
    /\ requests' = requests + 1
    /\ IF /\ coords.galaxy > 0 /\ coords.system > 0 /\ coords.planet > 0
          /\ user_id \in entities
          /\ fleet[user_id].colony_ship > 0
       THEN /\ fleet' = [fleet EXCEPT ![user_id].colony_ship = Max(0, @ - 1)]
            /\ db_planets' = IF db_enabled
                             THEN CreateColony(db_planets, user_id, coords)
                             ELSE db_planets
            /\ db_fleet' = IF db_enabled /\ AtFirstPlanet(db_planet[user_id], position[user_id])
                           THEN [db_fleet EXCEPT ![user_id] = fleet'[user_id]]
                           ELSE db_fleet
       ELSE UNCHANGED << fleet, db_planets, db_fleet >>
    /\ UNCHANGED << now, entities, worldVars, research, research_queue, ship_queue,
                    flightVars, db_planet, last_persist, db_ship_queue, histVars,
                    dbVars, issued, command_queue, marketVars, pc, local, http,
                    next_cmd_id, executed, ledger >>

\* the server runs on a database; player 10 has a home planet at (1,1,1)
\* and a colony ship, player 20 has no planet yet
InitPlanets ==
    /\ now = 0
    /\ entities = {10}
    /\ resources = [u \in Users |-> IF u = 10 THEN PlanetRowResources ELSE ZeroAmounts]
    /\ production = [u \in Users |-> NewProduction(0)]
    /\ buildings = [u \in Users |-> NewBuildings]
    /\ build_queue = [u \in Users |-> << >>]
    /\ last_active = [u \in Users |-> 0]
    /\ command_queue = << >>
    /\ market_offers = << >>
    /\ next_offer_id = 1
    /\ trade_history = << >>
    /\ next_trade_event_id = 1
    /\ fee_rate = 0
    /\ pc = [t \in Threads |-> "idle"]
    /\ local = [t \in Threads |-> InitLocal]
    /\ http = NoResponse
    /\ requests = 0
    /\ next_cmd_id = 1
    /\ executed = << >>
    /\ ledger = [u \in Users |-> ZeroAmounts]
    /\ db_enabled = TRUE
    /\ require_start_choice \in BOOLEAN
    /\ InitLoop
    /\ db_offers = {}
    /\ db_event_max = 0
    /\ hydration = "none"
    /\ hydrate_max = NoMax
    /\ issued = << >>
    /\ db_initial_ids = {}
    /\ research = [u \in Users |-> NewResearch]
    /\ research_queue = [u \in Users |-> << >>]
    /\ ship_queue = [u \in Users |-> << >>]
    /\ fleet = [u \in Users |-> IF u = 10 THEN [NewFleet EXCEPT !.colony_ship = 1]
                                           ELSE NewFleet]
    /\ position = [u \in Users |-> NewPosition]
    /\ movements = [u \in Users |-> << >>]
    /\ db_planet = [u \in Users |-> IF u = 10 THEN NewPlanetRow(0) ELSE NoPlanetRow]
    /\ last_persist = {}
    /\ db_planets = {PlanetAt(10, NewPosition)}
    /\ db_ship_queue = [u \in Users |-> << >>]
    /\ db_fleet = [u \in Users |-> IF u = 10 THEN fleet[10] ELSE NewFleet]
    /\ db_mission = [u \in Users |-> NoMission]
    /\ ws_sent = [u \in Users |-> 0]
    /\ completions = << >>
    /\ next_seq = 1

NextPlanets ==
    \/ \E u \in Users : RegisterDb(u)
    \/ \E u \in Users, coords \in StartChoices : ChooseStart(u, coords)
    \/ \E u \in CommandUsers, coords \in StartChoices : Colonize(u, coords)
    \/ \E u \in CommandUsers, target \in FreeTargets, mission \in Missions :
          FleetDispatch(u, target, mission)
    \/ \E d \in FlightSteps : Elapse(d, MaxPlanetsNow)
    \/ \E ok \in CreateColonyResults : WorldProcess(ok)
    \/ SavePlayerData

SpecPlanets == InitPlanets /\ [][NextPlanets]_vars

\* C26: no two rows of the planets table with the same coordinates belong
\* to different players.
C26_CoordinateOwnedByAtMostOnePlayer ==
    \A r1, r2 \in db_planets : r1.coords = r2.coords => r1.owner_id = r2.owner_id

\* ===================================================================
\* The battle system: a World that holds a scheduled Battle, resolved by
\* the passes of World.process() that the simulation thread and the
\* request thread (GET /player/{user_id}/fleet) both run.

\* every variable but the clock, the threads' positions, the last response
\* and the battle state
serverVars == << cmdVars, worldVars, marketVars, command_queue, next_cmd_id,
                 executed, ledger, issued, db_enabled, require_start_choice,
                 db_offers, db_event_max, hydration, hydrate_max, db_initial_ids >>

MaxBattleNow == 2
BattleSteps == {1}
BattleIds == {1}

\* attack and shield of config.BASE_SHIP_STATS
BASE_SHIP_STATS ==
    [light_fighter |-> [attack |-> 50, shield |-> 10],
     heavy_fighter |-> [attack |-> 150, shield |-> 25],
     cruiser |-> [attack |-> 400, shield |-> 50],
     battleship |-> [attack |-> 1000, shield |-> 200],
     bomber |-> [attack |-> 500, shield |-> 500]]

\* BASE_SHIP_STATS.get(ship_type, {}).get(stat, default)
ShipStat(ship_type, stat, default) ==
    IF ship_type \in DOMAIN BASE_SHIP_STATS THEN BASE_SHIP_STATS[ship_type][stat]
    ELSE default

\* BattleSystem._compute_power: a type without stats counts 1 per ship
ComputePower(ships) ==
    LET f == [s \in DOMAIN ships |-> ships[s] * ShipStat(s, "attack", 1)]
    IN  SumOver(f, DOMAIN f)
ComputeTotalAttack(ships) ==
    LET f == [s \in DOMAIN ships |-> ships[s] * ShipStat(s, "attack", 0)]
    IN  SumOver(f, DOMAIN f)
ComputeTotalShield(ships) ==
    LET f == [s \in DOMAIN ships |-> ships[s] * ShipStat(s, "shield", 0)]
    IN  SumOver(f, DOMAIN f)
\* ten times _compute_total_structure: (metal + crystal) / 10 per ship
ComputeTotalStructure10(ships) ==
    LET f == [s \in DOMAIN ships |->
                ships[s] * (BASE_SHIP_COSTS[s].metal + BASE_SHIP_COSTS[s].crystal)]
    IN  SumOver(f, DOMAIN f)

\* _apply_losses with fraction = min(1, damage / structure), floor rounding
ApplyLosses(ships, damage) ==
    LET structure10 == ComputeTotalStructure10(ships)
        destroyed(s) == IF 10 * damage >= structure10 THEN ships[s]
                        ELSE (ships[s] * 10 * damage) \div structure10
    IN  IF DOMAIN ships = {} \/ structure10 = 0 \/ damage <= 0
        THEN [losses |-> << >>, remaining |-> ships]
        ELSE [losses |-> [s \in DOMAIN ships |-> destroyed(s)],
              remaining |-> [s \in {x \in DOMAIN ships : ships[x] - destroyed(x) > 0} |->
                                ships[s] - destroyed(s)]]

\* battle.py lines 64-75
Winner(atk_power, def_power, atk_remaining_power, def_remaining_power) ==
    IF atk_remaining_power > def_remaining_power THEN "attacker"
    ELSE IF def_remaining_power > atk_remaining_power THEN "defender"
    ELSE IF atk_power > def_power THEN "attacker"
    ELSE IF def_power > atk_power THEN "defender"
    ELSE "draw"

NoOutcome == [winner |-> "none"]

\* battle.outcome as BattleSystem.process writes it at time t
BattleOutcome(attacker_ships, defender_ships, t) ==
    LET atk_power == ComputePower(attacker_ships)
        def_power == ComputePower(defender_ships)
        damage_to_def == Max(0, ComputeTotalAttack(attacker_ships)
                                    - ComputeTotalShield(defender_ships))
        damage_to_atk == Max(0, ComputeTotalAttack(defender_ships)
                                    - ComputeTotalShield(attacker_ships))
        atk == ApplyLosses(attacker_ships, damage_to_atk)
        def == ApplyLosses(defender_ships, damage_to_def)
        atk_remaining_power == ComputePower(atk.remaining)
        def_remaining_power == ComputePower(def.remaining)
    IN  [winner |-> Winner(atk_power, def_power, atk_remaining_power, def_remaining_power),
         attacker_power |-> atk_power,
         defender_power |-> def_power,
         attacker_remaining_power |-> atk_remaining_power,
         defender_remaining_power |-> def_remaining_power,
         attacker_losses |-> atk.losses,
         defender_losses |-> def.losses,
         attacker_remaining |-> atk.remaining,
         defender_remaining |-> def.remaining,
         resolved_at |-> t]

\* ship compositions of the two sides
BattleFleets ==
    { << >>,
      [s \in {"light_fighter"} |-> 1],
      [s \in {"light_fighter"} |-> 2],
      [s \in {"heavy_fighter"} |-> 3],
      [s \in {"cruiser"} |-> 1],
      [s \in {"colony_ship"} |-> 1] }

\* Battle(attacker_ships=..., defender_ships=..., scheduled_time=...)
NewBattle(attacker_ships, defender_ships, scheduled_time) ==
    [attacker_ships |-> attacker_ships, defender_ships |-> defender_ships,
     scheduled_time |-> scheduled_time, resolved |-> FALSE, outcome |-> NoOutcome]

\* BattleSystem.process on thread t, up to the test of line 34: the pass
\* reads the clock once and skips a resolved or not yet due battle
BattleCheck(t, ent) ==
    /\ pc[t] = "idle"
    /\ t = "req" => requests < MaxRequests
    /\ requests' = IF t = "req" THEN requests + 1 ELSE requests
    /\ http' = IF t = "req" THEN Response("get_player_fleet", 200) ELSE http
    /\ IF battles[ent].resolved \/ now < battles[ent].scheduled_time
       THEN UNCHANGED << pc, local >>
       ELSE /\ pc' = [pc EXCEPT ![t] = "battle_write"]
            /\ local' = [local EXCEPT ![t].current_time = now, ![t].ent = ent]
    /\ UNCHANGED << serverVars, now, battleVars, queueVars, runVars >>

\* lines 37-110 on thread t: the outcome, the flag and the report handed to
\* GameWorld.handle_battle_report, which stores it in memory
BattleResolve(t) ==
    /\ pc[t] = "battle_write"
    /\ LET ent == local[t].ent
           battle == battles[ent]
           outcome == BattleOutcome(battle.attacker_ships, battle.defender_ships,
                                    local[t].current_time)
       IN  /\ battles' = [battles EXCEPT ![ent].outcome = outcome,
                                         ![ent].resolved = TRUE]
           /\ battle_reports' = Append(battle_reports,
                                       [entity_id |-> ent, outcome |-> outcome])
    /\ pc' = [pc EXCEPT ![t] = "idle"]
    /\ local' = [local EXCEPT ![t] = InitLocal]
    /\ UNCHANGED << serverVars, now, http, requests, queueVars, runVars >>

InitBattle ==
    /\ InitWorld
    /\ fee_rate = 0
    /\ db_enabled = FALSE
    /\ require_start_choice = FALSE
    /\ db_offers = {}
    /\ db_event_max = 0
    /\ hydration = "none"
    /\ hydrate_max = NoMax
    /\ issued = << >>
    /\ db_initial_ids = {}
    /\ battles \in [BattleIds -> {NewBattle(a, d, st) :
                                    a \in BattleFleets, d \in BattleFleets,
                                    st \in 0..1}]
    /\ battle_reports = << >>
    /\ db_build_queue = [u \in Users |-> << >>]
    /\ cancelled = {}
    /\ InitRunVars
    /\ persistence_loop = "running"

NextBattle ==
    \/ \E t \in Threads, ent \in BattleIds : BattleCheck(t, ent)
    \/ \E t \in Threads : BattleResolve(t)
    \/ \E d \in BattleSteps : Elapse(d, MaxBattleNow)

SpecBattle == InitBattle /\ [][NextBattle]_vars

ReportsOf(ent) == {i \in DOMAIN battle_reports : battle_reports[i].entity_id = ent}

\* C31: each Battle is resolved at most once: a battle has a report only
\* once it is resolved and never more than one, once resolved its outcome
\* never changes, and the winner is the function of the two compositions
\* (surviving power, then initial power, then a draw).
C31_BattleResolvedAtMostOnce ==
    [][\A ent \in BattleIds :
          /\ Cardinality(ReportsOf(ent)') <= 1
          /\ battles[ent].resolved =>
                /\ battles'[ent].resolved
                /\ battles'[ent].outcome = battles[ent].outcome
          /\ battles'[ent].resolved =>
                battles'[ent].outcome.winner =
                    BattleOutcome(battles[ent].attacker_ships,
                                  battles[ent].defender_ships, 0).winner]_vars

\* ===================================================================
\* Buildings of a process with a database: the build, demolish and cancel
\* commands, the ticks, and the stop and start of the server.
\* The rows of the building_queue table are written by build_building and
\* by the completion of an item; the only reader, load_build_queue_items,
\* runs inside load_player_data, on the thread of the event loop, where it
\* times out and returns no row.
\* ===================================================================
MaxBuildNow == 800
BuildSteps == {400}
BuildInputs == {"shipyard", "solar_plant"}
BuildDemolishInputs == {"robot_factory", "shipyard", "research_lab"}
BuildCancelIndexes == {-1, 0, 1}
\* levels of robot_factory and shipyard that player 10 has built
BuiltLevels == { <<2, 0>>, <<2, 1>>, <<3, 1>> }
BuildResources == [metal |-> 1500, crystal |-> 800, deuterium |-> 400]

InitBuild ==
    /\ now = 0
    /\ entities = Users
    /\ resources = [u \in Users |-> IF u = 10 THEN BuildResources ELSE PlanetRowResources]
    /\ production = [u \in Users |-> NewProduction(0)]
    /\ \E lv \in BuiltLevels :
          buildings = [u \in Users |->
                          IF u = 10
                          THEN [NewBuildings EXCEPT !.robot_factory = lv[1],
                                                    !.shipyard = lv[2]]
                          ELSE NewBuildings]
    /\ build_queue = [u \in Users |-> << >>]
    /\ last_active = [u \in Users |-> 0]
    /\ command_queue = << >>
    /\ market_offers = << >>
    /\ next_offer_id = 1
    /\ trade_history = << >>
    /\ next_trade_event_id = 1
    /\ fee_rate = 0
    /\ pc = [t \in Threads |-> "idle"]
    /\ local = [t \in Threads |-> InitLocal]
    /\ http = NoResponse
    /\ requests = 0
    /\ next_cmd_id = 1
    /\ executed = << >>
    /\ ledger = [u \in Users |-> ZeroAmounts]
    /\ db_enabled = TRUE
    /\ require_start_choice = FALSE
    /\ InitLoop
    /\ db_offers = {}
    /\ db_event_max = 0
    /\ hydration = "none"
    /\ hydrate_max = NoMax
    /\ issued = << >>
    /\ db_initial_ids = {}
    /\ research = [u \in Users |-> NewResearch]
    /\ research_queue = [u \in Users |-> << >>]
    /\ ship_queue = [u \in Users |-> << >>]
    /\ fleet = [u \in Users |-> NewFleet]
    /\ position = [u \in Users |-> NewPosition]
    /\ movements = [u \in Users |-> << >>]
    /\ db_planet = [u \in Users |-> [NewPlanetRow(0) EXCEPT !.resources = resources[u]]]
    /\ last_persist = {}
    /\ db_planets = {PlanetAt(u, NewPosition) : u \in Users}
    /\ db_ship_queue = [u \in Users |-> << >>]
    /\ db_fleet = fleet
    /\ db_mission = [u \in Users |-> NoMission]
    /\ ws_sent = [u \in Users |-> 0]
    /\ completions = << >>
    /\ next_seq = 1

NextBuild ==
    \/ \E u \in CommandUsers, b \in BuildInputs : BuildBuilding(u, b)
    \/ \E u \in CommandUsers, b \in BuildDemolishInputs : DemolishBuilding(u, b)
    \/ \E u \in CommandUsers, i \in BuildCancelIndexes : CancelBuildQueue(u, i)
    \/ \E d \in BuildSteps : Elapse(d, MaxBuildNow)
    \/ \E ok \in CreateColonyResults : WorldProcess(ok)
    \/ \E d \in Downtimes : Restart(d, MaxBuildNow)

SpecBuild == InitBuild /\ [][NextBuild]_vars

\* every building of level 1 or more has the levels PREREQUISITES asks for
PrerequisitesHold(levels) ==
    \A target \in DOMAIN PREREQUISITES :
        Attr(levels, target) >= 1 =>
            \A req \in DOMAIN PREREQUISITES[target] :
                Attr(levels, req) >= PREREQUISITES[target][req]

\* C32: a demolition that would break the prerequisite of another existing
\* building is refused, with no level change and no refund; an allowed
\* demolition lowers exactly that building's level by one, never below zero.
C32_DemolishKeepsPrerequisites ==
    [][\A u \in CommandUsers, b \in BuildDemolishInputs :
          DemolishBuilding(u, b) =>
              LET level == Attr(buildings[u], b)
                  lowered == IF b \in DOMAIN buildings[u]
                             THEN [buildings[u] EXCEPT ![b] = level - 1]
                             ELSE buildings[u]
              IN  /\ (PrerequisitesHold(buildings[u]) /\ ~PrerequisitesHold(lowered)) =>
                        /\ buildings' = buildings
                        /\ resources' = resources
                  /\ buildings' # buildings =>
                        /\ buildings' = [buildings EXCEPT ![u] = lowered]
                        /\ level - 1 >= 0
                  /\ \A e \in entities : \A n \in DOMAIN buildings[e] :
                        buildings'[e][n] >= 0]_vars

\* player 10 had robot_factory 3 and shipyard 1 and demolished one level of
\* the factory, which leaves the level the shipyard needs; the refund of that
\* level was paid and nothing else has changed since
C32_Witness ==
    /\ now = 0
    /\ requests >= 1
    /\ buildings[10].robot_factory = 2
    /\ buildings[10].shipyard = 1
    /\ resources[10] = Refund(BuildResources, CalculateBuildingCost("robot_factory", 2), 3, 10)

\* C33: cancelling a build-queue entry by index removes exactly that entry
\* and refunds half of the cost recorded in it; an out-of-range index changes
\* nothing; a cancelled entry never completes afterwards and is in no build
\* queue again, in this run or after a restart.
C33_CancelRemovesExactlyThatEntry ==
    [][/\ \A u \in CommandUsers, i \in BuildCancelIndexes :
             CancelBuildQueue(u, i) =>
                 LET q == build_queue[u]
                 IN  /\ buildings' = buildings
                     /\ IF u \in entities /\ 0 <= i /\ i < Len(q)
                        THEN /\ Len(build_queue'[u]) = Len(q) - 1
                             /\ \A k \in 1..(Len(q) - 1) :
                                   build_queue'[u][k] = IF k <= i THEN q[k] ELSE q[k + 1]
                             /\ \A r \in ResourceNames :
                                   resources'[u][r] = resources[u][r] + q[i + 1].cost[r] \div 2
                             /\ \A e \in Users \ {u} :
                                   /\ build_queue'[e] = build_queue[e]
                                   /\ resources'[e] = resources[e]
                        ELSE /\ build_queue' = build_queue
                             /\ resources' = resources
       /\ \A k \in DOMAIN completions' :
             completions'[k].queue = "build" => completions'[k].seq \notin cancelled'
       /\ \A e \in Users : \A k \in DOMAIN build_queue'[e] :
             build_queue'[e][k].seq \notin cancelled']_vars

\* the second of two queued builds was cancelled, the first has completed,
\* the server has been stopped and started, and the row of the cancelled
\* entry is still pending in the database with its completion time passed
C33_Witness ==
    /\ hydration = "pending"
    /\ \E c \in DOMAIN completions : completions[c].queue = "build"
    /\ \E k \in DOMAIN db_build_queue[10] :
          /\ db_build_queue[10][k].seq \in cancelled
          /\ db_build_queue[10][k].status = "pending"
          /\ now >= db_build_queue[10][k].complete_at

\* C40: after any sequence of build, demolish and cancel commands and ticks,
\* every building of level >= 1 has its prerequisites satisfied, also when a
\* prerequisite is demolished while the dependent building waits in the queue.
C40_PrerequisitesAlwaysHold ==
    \A e \in entities : PrerequisitesHold(buildings[e])

\* ===================================================================
\* The life of the tick loop: start_game_loop, _game_loop, stop_game_loop,
\* save_player_data and the bridge to the event loop (sync._submit,
\* sync._submit_and_wait). Three threads take part: "main" runs the lifespan
\* of the application (start, stop, final save), "sim" is the thread of
\* _game_loop, and "req" serves requests and calls save_player_data directly
\* as tests/test_persistence_concurrency.py does. World.get_components is a
\* generator over the dict World._entities; a next() on it after the dict
\* changed size raises RuntimeError.
\* ===================================================================
MaxTicks == 2
MaxRunNow == 120
RunSteps == {60}
MaxDirectSaves == 2
\* the day of the year of the run
Today == "today"
READ_TIMEOUT == 2
\* what the event loop does with a coroutine it was handed
BridgeAnswers == {"value", "db_error", "timeout"}

nonRunVars == << serverVars, now, pc, local, http, requests, battleVars, queueVars >>

\* sync._submit: what a write does for the state of the captured loop.
\* run_coroutine_threadsafe on a closed loop raises RuntimeError, caught.
Submit(loop) ==
    [scheduled |-> loop = "running", result |-> "default", waited |-> 0,
     raised |-> FALSE]

\* fut.result(timeout) with its TimeoutError not caught
SubmitAndWaitUncaught(loop, answer) ==
    IF loop = "running"
    THEN [scheduled |-> TRUE,
          result |-> IF answer = "value" THEN "value" ELSE "default",
          waited |-> IF answer = "timeout" THEN READ_TIMEOUT ELSE 0,
          raised |-> answer = "timeout"]
    ELSE [scheduled |-> FALSE, result |-> "default", waited |-> 0, raised |-> FALSE]

\* sync._submit_and_wait: what a bounded read does. fut.result(timeout) gives
\* the value, re-raises the error of the coroutine or raises TimeoutError
\* after the timeout; both exceptions are caught and the default returned.
SubmitAndWait(loop, answer) ==
    IF loop = "running"
    THEN [scheduled |-> TRUE,
          result |-> IF answer = "value" THEN "value" ELSE "default",
          waited |-> IF answer = "timeout" THEN READ_TIMEOUT ELSE 0,
          raised |-> FALSE]
    ELSE [scheduled |-> FALSE, result |-> "default", waited |-> 0, raised |-> FALSE]

BridgeCall(kind, t, call) ==
    [kind |-> kind, thread |-> t, loop |-> persistence_loop,
     scheduled |-> call.scheduled, result |-> call.result, waited |-> call.waited,
     raised |-> call.raised]

\* where a thread goes on when save_player_data returns
AfterSave(t) ==
    IF t = "sim" THEN "cleanup" ELSE IF t = "main" THEN "stopped" ELSE "idle"

\* the lifespan of the application has captured its event loop (or failed
\* to), player 10 is loaded from the database, the loop is not started
InitRun ==
    /\ now = 0
    /\ entities = {10}
    /\ resources = [u \in Users |-> IF u = 10 THEN PlanetRowResources ELSE ZeroAmounts]
    /\ production = [u \in Users |-> NewProduction(0)]
    /\ buildings = [u \in Users |-> NewBuildings]
    /\ build_queue = [u \in Users |-> << >>]
    /\ last_active = [u \in Users |-> 0]
    /\ command_queue = << >>
    /\ market_offers = << >>
    /\ next_offer_id = 1
    /\ trade_history = << >>
    /\ next_trade_event_id = 1
    /\ fee_rate = 0
    /\ pc = [t \in Threads |-> "idle"]
    /\ local = [t \in Threads |-> InitLocal]
    /\ http = NoResponse
    /\ requests = 0
    /\ next_cmd_id = 1
    /\ executed = << >>
    /\ ledger = [u \in Users |-> ZeroAmounts]
    /\ db_enabled = TRUE
    /\ require_start_choice = FALSE
    /\ battles = << >>
    /\ battle_reports = << >>
    /\ db_build_queue = [u \in Users |-> << >>]
    /\ cancelled = {}
    /\ InitRunVars
    /\ persistence_loop \in {"none", "running"}
    /\ db_offers = {}
    /\ db_event_max = 0
    /\ hydration = "none"
    /\ hydrate_max = NoMax
    /\ issued = << >>
    /\ db_initial_ids = {}
    /\ research = [u \in Users |-> NewResearch]
    /\ research_queue = [u \in Users |-> << >>]
    /\ ship_queue = [u \in Users |-> << >>]
    /\ fleet = [u \in Users |-> NewFleet]
    /\ position = [u \in Users |-> NewPosition]
    /\ movements = [u \in Users |-> << >>]
    /\ db_planet = [u \in Users |-> IF u = 10 THEN NewPlanetRow(0) ELSE NoPlanetRow]
    /\ last_persist = {}
    /\ db_planets = {PlanetAt(10, NewPosition)}
    /\ db_ship_queue = [u \in Users |-> << >>]
    /\ db_fleet = fleet
    /\ db_mission = [u \in Users |-> NoMission]
    /\ ws_sent = [u \in Users |-> 0]
    /\ completions = << >>
    /\ next_seq = 1

\* start_game_loop, called once by the lifespan
StartGameLoop ==
    /\ run_pc["main"] = "idle"
    /\ IF ~running
       THEN /\ running' = TRUE
            /\ run_pc' = [run_pc EXCEPT !["sim"] = "while", !["main"] = "serving"]
       ELSE /\ running' = running
            /\ run_pc' = [run_pc EXCEPT !["main"] = "serving"]
    /\ UNCHANGED << nonRunVars, ticks, iter, save_lock, last_save_ts, last_cleanup_day,
                    persistence_loop, bridge, save_log >>

\* stop_game_loop up to the join: self.running = False
StopGameLoop ==
    /\ run_pc["main"] = "serving"
    /\ running' = FALSE
    /\ run_pc' = [run_pc EXCEPT !["main"] = "join"]
    /\ UNCHANGED << nonRunVars, ticks, iter, save_lock, last_save_ts, last_cleanup_day,
                    persistence_loop, bridge, save_log >>

\* stop_game_loop without the join
JoinGameThreadSkipped ==
    /\ run_pc["main"] = "join"
    /\ run_pc' = [run_pc EXCEPT !["main"] = "save_call"]
    /\ UNCHANGED << nonRunVars, running, ticks, iter, save_lock, last_save_ts,
                    last_cleanup_day, persistence_loop, bridge, save_log >>

\* self.game_thread.join() returns when the thread has ended, by a return
\* or by an exception; the final save is called next
JoinGameThread ==
    /\ run_pc["main"] = "join"
    /\ run_pc["sim"] \in {"finished", "died"}
    /\ run_pc' = [run_pc EXCEPT !["main"] = "save_call"]
    /\ UNCHANGED << nonRunVars, running, ticks, iter, save_lock, last_save_ts,
                    last_cleanup_day, persistence_loop, bridge, save_log >>

\* while self.running: a tick starts, or _game_loop returns
LoopWhile ==
    /\ run_pc["sim"] = "while"
    /\ IF running
       THEN /\ ticks < MaxTicks
            /\ ticks' = ticks + 1
            /\ run_pc' = [run_pc EXCEPT !["sim"] = "commands"]
       ELSE /\ ticks' = ticks
            /\ run_pc' = [run_pc EXCEPT !["sim"] = "finished"]
    /\ UNCHANGED << nonRunVars, running, iter, save_lock, last_save_ts, last_cleanup_day,
                    persistence_loop, bridge, save_log >>

\* self._process_commands() on an empty queue
LoopCommands ==
    /\ run_pc["sim"] = "commands"
    /\ command_queue = << >>
    /\ run_pc' = [run_pc EXCEPT !["sim"] = "systems"]
    /\ UNCHANGED << nonRunVars, running, ticks, iter, save_lock, last_save_ts,
                    last_cleanup_day, persistence_loop, bridge, save_log >>

\* self.world.process(): the first processor calls get_components
LoopSystems ==
    /\ run_pc["sim"] = "systems"
    /\ iter' = [iter EXCEPT !["sim"] = Cardinality(entities)]
    /\ run_pc' = [run_pc EXCEPT !["sim"] = "pass"]
    /\ UNCHANGED << nonRunVars, running, ticks, save_lock, last_save_ts,
                    last_cleanup_day, persistence_loop, bridge, save_log >>

\* the processors run over the entities. A RuntimeError of the generator
\* leaves the processor, World.process re-raises it and nothing in
\* _game_loop catches it: the thread ends with self.running still True.
LoopPass(ok) ==
    /\ run_pc["sim"] = "pass"
    /\ IF Cardinality(entities) = iter["sim"]
       THEN /\ WorldPass(ok)
            /\ run_pc' = [run_pc EXCEPT !["sim"] = "pass_end"]
            /\ UNCHANGED << running, ticks, iter, save_lock, last_save_ts,
                            last_cleanup_day, persistence_loop, bridge, save_log >>
       ELSE /\ run_pc' = [run_pc EXCEPT !["sim"] = "died"]
            /\ UNCHANGED << nonRunVars, running, ticks, iter, save_lock, last_save_ts,
                            last_cleanup_day, persistence_loop, bridge, save_log >>

\* the last next() of a processor's generator
LoopPassEnd ==
    /\ run_pc["sim"] = "pass_end"
    /\ run_pc' = [run_pc EXCEPT !["sim"] =
                     IF Cardinality(entities) = iter["sim"] THEN "save_check" ELSE "died"]
    /\ UNCHANGED << nonRunVars, running, ticks, iter, save_lock, last_save_ts,
                    last_cleanup_day, persistence_loop, bridge, save_log >>

\* the periodic save, due a save interval after the end of the last save
LoopSaveCheck ==
    /\ run_pc["sim"] = "save_check"
    /\ run_pc' = [run_pc EXCEPT !["sim"] =
                     IF now - last_save_ts >= SAVE_INTERVAL_SECONDS
                     THEN "save_call" ELSE "cleanup"]
    /\ UNCHANGED << nonRunVars, running, ticks, iter, save_lock, last_save_ts,
                    last_cleanup_day, persistence_loop, bridge, save_log >>

\* the daily cleanup job and the sleep up to the next tick.
\* cleanup_inactive_players reads through _submit_and_wait when the
\* database is enabled; no player of this model is inactive for CLEANUP_DAYS.
LoopCleanup(answer) ==
    /\ run_pc["sim"] = "cleanup"
    /\ run_pc' = [run_pc EXCEPT !["sim"] = "while"]
    /\ IF last_cleanup_day # Today
       THEN /\ last_cleanup_day' = Today
            /\ bridge' = IF db_enabled
                         THEN BridgeCall("read", "sim",
                                         SubmitAndWait(persistence_loop, answer))
                         ELSE bridge
       ELSE UNCHANGED << last_cleanup_day, bridge >>
    /\ UNCHANGED << nonRunVars, running, ticks, iter, save_lock, last_save_ts,
                    persistence_loop, save_log >>

\* acquire() that takes the lock whoever holds it
SaveAcquireAlways(t) ==
    /\ run_pc[t] = "save_call"
    /\ save_lock' = t
    /\ iter' = [iter EXCEPT ![t] = Cardinality(entities)]
    /\ run_pc' = [run_pc EXCEPT ![t] = "save_iter"]
    /\ save_log' = save_log
    /\ UNCHANGED << nonRunVars, running, ticks, last_save_ts, last_cleanup_day,
                    persistence_loop, bridge >>

\* save_player_data up to the trylock: self._save_lock.acquire(blocking=False);
\* without the lock the call returns
SaveAcquire(t) ==
    /\ run_pc[t] = "save_call"
    /\ IF save_lock = "free"
       THEN /\ save_lock' = t
            /\ iter' = [iter EXCEPT ![t] = Cardinality(entities)]
            /\ run_pc' = [run_pc EXCEPT ![t] = "save_iter"]
            /\ save_log' = save_log
       ELSE /\ run_pc' = [run_pc EXCEPT ![t] = AfterSave(t)]
            /\ save_log' = Append(save_log, [thread |-> t, saved |-> FALSE])
            /\ UNCHANGED << save_lock, iter >>
    /\ UNCHANGED << nonRunVars, running, ticks, last_save_ts, last_cleanup_day,
                    persistence_loop, bridge >>

\* the body of the save: sync_planet_resources for every entity, each write
\* handed to the event loop by _submit. An exception of the generator is
\* caught by the except clause of the save.
SaveWrite(t) ==
    /\ run_pc[t] = "save_iter"
    /\ run_pc' = [run_pc EXCEPT ![t] = "save_end"]
    /\ LET call == Submit(persistence_loop)
       IN  IF Cardinality(entities) = iter[t] /\ entities # {} /\ db_enabled
           THEN /\ bridge' = BridgeCall("write", t, call)
                /\ IF call.scheduled
                   THEN /\ last_persist' = SavedLastPersist
                        /\ db_planet' = SavedPlanet
                        /\ db_planets' = SavedPlanets
                   ELSE UNCHANGED << last_persist, db_planet, db_planets >>
           ELSE UNCHANGED << bridge, last_persist, db_planet, db_planets >>
    /\ UNCHANGED << db_ship_queue, db_fleet, now, entities, worldVars, shipVars,
                    flightVars, histVars, coreDbVars, battleVars, queueVars, issued,
                    command_queue, marketVars, pc, local, http, requests, next_cmd_id,
                    executed, ledger, running, ticks, iter, save_lock, last_save_ts,
                    last_cleanup_day, persistence_loop, save_log >>

\* the finally clause of the save: the lock is released and the time of the
\* save recorded, then the call returns
SaveFinally(t) ==
    /\ run_pc[t] = "save_end"
    /\ save_lock' = "free"
    /\ last_save_ts' = now
    /\ save_log' = Append(save_log, [thread |-> t, saved |-> TRUE])
    /\ run_pc' = [run_pc EXCEPT ![t] = AfterSave(t)]
    /\ UNCHANGED << nonRunVars, running, ticks, iter, last_cleanup_day,
                    persistence_loop, bridge >>

\* a call of save_player_data from a thread of its own
DirectSave ==
    /\ run_pc["req"] = "idle"
    /\ requests < MaxDirectSaves
    /\ requests' = requests + 1
    /\ run_pc' = [run_pc EXCEPT !["req"] = "save_call"]
    /\ UNCHANGED << serverVars, now, pc, local, http, battleVars, queueVars, running,
                    ticks, iter, save_lock, last_save_ts, last_cleanup_day,
                    persistence_loop, bridge, save_log >>

\* the event loop of a stopped application is closed
ClosePersistenceLoop ==
    /\ run_pc["main"] = "stopped"
    /\ persistence_loop = "running"
    /\ persistence_loop' = "closed"
    /\ UNCHANGED << nonRunVars, running, run_pc, ticks, iter, save_lock, last_save_ts,
                    last_cleanup_day, bridge, save_log >>

NextRun ==
    \/ StartGameLoop
    \/ StopGameLoop
    \/ JoinGameThread
    \/ LoopWhile
    \/ LoopCommands
    \/ LoopSystems
    \/ \E ok \in CreateColonyResults : LoopPass(ok)
    \/ LoopPassEnd
    \/ LoopSaveCheck
    \/ \E answer \in BridgeAnswers : LoopCleanup(answer)
    \/ \E t \in LoopThreads : SaveAcquire(t)
    \/ \E t \in LoopThreads : SaveWrite(t)
    \/ \E t \in LoopThreads : SaveFinally(t)
    \/ DirectSave
    \/ ClosePersistenceLoop
    \/ \E u \in Users : RegisterDb(u)
    \/ \E d \in RunSteps : Elapse(d, MaxRunNow)

SpecRun == InitRun /\ [][NextRun]_vars

\* C34: the tick loop ends only on a stop signal: no exception raised during
\* a tick ends the loop or kills the simulation thread, so the thread never
\* ends by an exception and has only returned when running is False.
C34_LoopEndsOnlyOnStop ==
    /\ run_pc["sim"] # "died"
    /\ run_pc["sim"] = "finished" => ~running

InSave(t) == run_pc[t] \in {"save_iter", "save_end"}
SimEnded == run_pc["sim"] \in {"finished", "died"}

\* C35: once stop is requested no new tick starts; stop_game_loop goes past
\* the join only when the simulation thread has ended, so its final save
\* runs after the last tick; and stop_game_loop returns only after its call
\* of save_player_data has returned.
C35_GracefulStop ==
    [][/\ ~running => ticks' = ticks
       /\ run_pc'["main"] \in {"save_call", "save_iter", "save_end", "stopped"} =>
             /\ SimEnded'
             /\ ~running'
             /\ ticks' = ticks
       /\ (run_pc["main"] # "stopped" /\ run_pc'["main"] = "stopped") =>
             /\ run_pc["main"] \in {"save_call", "save_end"}
             /\ save_log' # << >>
             /\ save_log'[Len(save_log')].thread = "main"]_vars

\* the loop has run a tick, stop_game_loop has returned after a final save
\* that wrote, and the thread of the loop has returned
C35_Witness ==
    /\ run_pc["main"] = "stopped"
    /\ run_pc["sim"] = "finished"
    /\ ticks >= 1
    /\ \E i \in DOMAIN save_log : save_log[i].thread = "main" /\ save_log[i].saved

\* C36: saves never overlap: at most one thread is inside the body of
\* save_player_data and it holds the lock; a call that finds the lock taken
\* returns without writing; the lock is free whenever no save is in flight.
C36_SavesNeverOverlap ==
    [][/\ Cardinality({t \in LoopThreads : InSave(t)'}) <= 1
       /\ \A t \in LoopThreads : InSave(t)' <=> save_lock' = t
       /\ (\A t \in LoopThreads : ~InSave(t)') => save_lock' = "free"
       /\ \A t \in LoopThreads :
             (SaveAcquire(t) /\ save_lock # "free") =>
                 /\ run_pc'[t] = AfterSave(t)
                 /\ save_lock' = save_lock
                 /\ planetVars' = planetVars
                 /\ last_save_ts' = last_save_ts
       /\ \A t \in LoopThreads :
             (SaveAcquire(t) /\ save_lock = "free") => InSave(t)']_vars

\* a call from the request thread was skipped while a save of the loop was
\* in flight, and a later call from the same thread saved
C36_Witness ==
    \E i, j \in DOMAIN save_log :
        /\ i < j
        /\ save_log[i].thread = "req" /\ ~save_log[i].saved
        /\ save_log[j].thread = "req" /\ save_log[j].saved
        /\ \E k \in DOMAIN save_log : save_log[k].thread = "sim" /\ save_log[k].saved

\* C37: without a captured loop a bridge write schedules nothing and a
\* bounded read returns its default; whatever the loop is and does, no
\* bridge call raises and none waits longer than the read timeout, a write
\* not at all; a write that schedules nothing leaves the rows as they are.
C37_BridgeNeverRaises ==
    [][/\ bridge'.kind # "none" =>
             /\ ~bridge'.raised
             /\ bridge'.waited <= READ_TIMEOUT
             /\ bridge'.kind = "write" => bridge'.waited = 0
             /\ bridge'.loop # "running" =>
                   /\ ~bridge'.scheduled
                   /\ bridge'.result = "default"
                   /\ bridge'.waited = 0
       /\ \A t \in LoopThreads :
             (SaveWrite(t) /\ persistence_loop # "running") => planetVars' = planetVars
       /\ run_pc'["sim"] = "died" => run_pc["sim"] \in {"died", "pass", "pass_end"}]_vars

\* the loop was never captured and the simulation thread has made both
\* kinds of call: the read of the cleanup job in an earlier tick, and last a
\* write of the periodic save
C37_Witness ==
    /\ persistence_loop = "none"
    /\ last_cleanup_day = Today
    /\ bridge.kind = "write"
    /\ bridge.thread = "sim"
    /\ bridge.loop = "none"
    /\ ticks = MaxTicks

\* ===================================================================
\* Queues whose items did not all come from the command handlers: an item
\* without completion_time (completion_time None) at the head or between
\* well-formed items of the build, research and ship queues of player 10.
\* ===================================================================
MaxHeadNow == 20
HeadSteps == {10}
HeadSeqs == 1..9

HeadItem(type, ct, seq) ==
    [type |-> type, completion_time |-> ct, cost |-> ZeroAmounts, seq |-> seq]
HeadShipItem(type, count, ct, seq) ==
    [type |-> type, count |-> count, completion_time |-> ct, cost |-> ZeroAmounts,
     seq |-> seq]

HeadBuildQueues ==
    { << >>,
      << HeadItem("metal_mine", NoTime, 1) >>,
      << HeadItem("metal_mine", NoTime, 1), HeadItem("metal_mine", 10, 2) >>,
      << HeadItem("metal_mine", NoTime, 1), HeadItem("solar_plant", NoTime, 2),
         HeadItem("metal_mine", 10, 3) >>,
      << HeadItem("solar_plant", 10, 1), HeadItem("metal_mine", NoTime, 2),
         HeadItem("metal_mine", 20, 3) >> }
HeadResearchQueues ==
    { << >>,
      << HeadItem("energy", NoTime, 4) >>,
      << HeadItem("energy", NoTime, 4), HeadItem("energy", 10, 5) >>,
      << HeadItem("energy", 10, 4), HeadItem("energy", NoTime, 5),
         HeadItem("energy", 20, 6) >> }
HeadShipQueues ==
    { << >>,
      << HeadShipItem("light_fighter", 2, NoTime, 7) >>,
      << HeadShipItem("light_fighter", 2, NoTime, 7),
         HeadShipItem("light_fighter", 3, 10, 8) >>,
      << HeadShipItem("light_fighter", 1, 10, 7),
         HeadShipItem("light_fighter", 2, NoTime, 8),
         HeadShipItem("light_fighter", 3, 10, 9) >> }

\* a process without a database whose player 10 holds such queues
InitHead ==
    /\ now = 0
    /\ entities = Users
    /\ resources = [u \in Users |-> PlanetRowResources]
    /\ production = [u \in Users |-> NewProduction(0)]
    /\ buildings = [u \in Users |-> NewBuildings]
    /\ \E q \in HeadBuildQueues :
          build_queue = [u \in Users |-> IF u = 10 THEN q ELSE << >>]
    /\ last_active = [u \in Users |-> 0]
    /\ command_queue = << >>
    /\ market_offers = << >>
    /\ next_offer_id = 1
    /\ trade_history = << >>
    /\ next_trade_event_id = 1
    /\ fee_rate = 0
    /\ pc = [t \in Threads |-> "idle"]
    /\ local = [t \in Threads |-> InitLocal]
    /\ http = NoResponse
    /\ requests = 0
    /\ next_cmd_id = 1
    /\ executed = << >>
    /\ ledger = [u \in Users |-> ZeroAmounts]
    /\ db_enabled = FALSE
    /\ require_start_choice = FALSE
    /\ InitLoop
    /\ db_offers = {}
    /\ db_event_max = 0
    /\ hydration = "none"
    /\ hydrate_max = NoMax
    /\ issued = << >>
    /\ db_initial_ids = {}
    /\ research = [u \in Users |-> NewResearch]
    /\ \E q \in HeadResearchQueues :
          research_queue = [u \in Users |-> IF u = 10 THEN q ELSE << >>]
    /\ \E q \in HeadShipQueues :
          ship_queue = [u \in Users |-> IF u = 10 THEN q ELSE << >>]
    /\ fleet = [u \in Users |-> NewFleet]
    /\ position = [u \in Users |-> NewPosition]
    /\ movements = [u \in Users |-> << >>]
    /\ db_planet = [u \in Users |-> NoPlanetRow]
    /\ last_persist = {}
    /\ db_planets = {}
    /\ db_ship_queue = [u \in Users |-> << >>]
    /\ db_fleet = fleet
    /\ db_mission = [u \in Users |-> NoMission]
    /\ ws_sent = [u \in Users |-> 0]
    /\ completions = << >>
    /\ next_seq = 10

HeadTick == \E ok \in CreateColonyResults : WorldProcess(ok)
HeadElapse == \E d \in HeadSteps : Elapse(d, MaxHeadNow)

NextHead ==
    \/ HeadTick
    \/ HeadElapse

\* the loop ticks once a second and the clock moves on
SpecHead == InitHead /\ [][NextHead]_vars /\ WF_vars(HeadTick) /\ WF_vars(HeadElapse)

Malformed(q) == q # << >> /\ Head(q).completion_time = NoTime
DueHead(q) ==
    q # << >> /\ Head(q).completion_time # NoTime /\ now >= Head(q).completion_time

\* ships of one type in the well-formed items of a sequence of items
RECURSIVE WellFormedShips(_, _)
WellFormedShips(items, type) ==
    IF items = << >> THEN 0
    ELSE (IF Head(items).completion_time # NoTime /\ Head(items).type = type
          THEN Head(items).count ELSE 0)
         + WellFormedShips(Tail(items), type)

\* the well-formed item of the three queues that carries sequence number s
QueuedWellFormed(s) ==
    \E e \in Users :
        \E q \in {build_queue[e], research_queue[e], ship_queue[e]} :
            \E k \in DOMAIN q : q[k].seq = s /\ q[k].completion_time # NoTime
CompletedSeq(s) == \E k \in DOMAIN completions : completions[k].seq = s

\* C38: a queue head without completion_time is removed by the tick with no
\* level and no ship gained from it; a well-formed head that is due completes
\* in the tick; only well-formed items are ever completed; and every
\* well-formed item, behind a malformed one or not, is completed in the end.
C38_MalformedHeadDropped ==
    /\ [][HeadTick =>
            /\ \A e \in entities :
                  /\ Malformed(build_queue[e]) =>
                        /\ build_queue'[e] = Tail(build_queue[e])
                        /\ buildings'[e] = buildings[e]
                  /\ Malformed(research_queue[e]) =>
                        /\ research_queue'[e] = Tail(research_queue[e])
                        /\ research'[e] = research[e]
                  /\ LET q == ship_queue[e]
                         removed == SubSeq(q, 1, Len(q) - Len(ship_queue'[e]))
                     IN  /\ ship_queue'[e] = SubSeq(q, Len(removed) + 1, Len(q))
                         /\ ~Malformed(ship_queue'[e])
                         /\ Malformed(q) => Len(removed) >= 1
                         /\ \A s \in ShipTypes :
                               fleet'[e][s] = fleet[e][s] + WellFormedShips(removed, s)
                  /\ DueHead(build_queue[e]) =>
                        /\ build_queue'[e] = Tail(build_queue[e])
                        /\ buildings'[e] =
                              [buildings[e] EXCEPT ![Head(build_queue[e]).type] = @ + 1]
                  /\ DueHead(research_queue[e]) =>
                        /\ research_queue'[e] = Tail(research_queue[e])
                        /\ research'[e] =
                              [research[e] EXCEPT ![Head(research_queue[e]).type] = @ + 1]
            /\ \A k \in (Len(completions) + 1)..Len(completions') :
                  QueuedWellFormed(completions'[k].seq)]_vars
    /\ \A s \in HeadSeqs : QueuedWellFormed(s) ~> CompletedSeq(s)

\* two malformed items stood before a well-formed build item: both are gone
\* without a completion, the item behind them has completed and raised the
\* level, and the ship behind a malformed ship item has been built
C38_Witness ==
    /\ build_queue[10] = << >>
    /\ CompletedSeq(3)
    /\ ~CompletedSeq(1)
    /\ ~CompletedSeq(2)
    /\ buildings[10].metal_mine = NewBuildings.metal_mine + 1
    /\ buildings[10].solar_plant = NewBuildings.solar_plant
    /\ ship_queue[10] = << >>
    /\ CompletedSeq(8)
    /\ ~CompletedSeq(7)
    /\ fleet[10].light_fighter = 3

\* ===================================================================
\* The command queue between the routes that fill it and the two callers of
\* _process_commands: the tick of _game_loop and GET /player/{id}/fleet on
\* the thread of the event loop. queue.Queue.get_nowait hands every command
\* to one caller.
\* ===================================================================
DrainCmdIds == 1..(2 * MaxRequests)

\* DELETE /player/{user_id}/build-queue/{index}: two commands are queued. The
\* build queues of this specification are empty, the cancel changes nothing.
CancelBuildQueueRoute(user_id) ==
    /\ requests < MaxRequests
    /\ requests' = requests + 1
    /\ command_queue' = command_queue \o
            << [id |-> next_cmd_id, type |-> "cancel_build_queue", user_id |-> user_id],
               [id |-> next_cmd_id + 1, type |-> "update_player_activity",
                user_id |-> user_id] >>
    /\ next_cmd_id' = next_cmd_id + 2
    /\ UNCHANGED << cmdVars, dbVars, issued, now, worldVars, marketVars, pc, local, http,
                    executed, ledger >>

\* while self.running, with the ticks of this specification not counted
LoopWhileOn ==
    /\ run_pc["sim"] = "while"
    /\ run_pc' = [run_pc EXCEPT !["sim"] = IF running THEN "commands" ELSE "finished"]
    /\ UNCHANGED << nonRunVars, running, ticks, iter, save_lock, last_save_ts,
                    last_cleanup_day, persistence_loop, bridge, save_log >>

\* self._process_commands() of the tick is entered
DrainBegin ==
    /\ run_pc["sim"] = "commands"
    /\ pc["sim"] = "idle"
    /\ pc' = [pc EXCEPT !["sim"] = "drain"]
    /\ UNCHANGED << serverVars, now, local, http, requests, loopVars >>

\* _process_commands finds the queue empty and returns: the tick goes on to
\* world.process(), the fleet route to the first of its two passes
DrainEnd(t) ==
    /\ pc[t] = "drain"
    /\ command_queue = << >>
    /\ run_pc[t] = IF t = "sim" THEN "commands" ELSE "idle"
    /\ pc' = [pc EXCEPT ![t] = "idle"]
    /\ local' = [local EXCEPT ![t] = InitLocal]
    /\ run_pc' = [run_pc EXCEPT ![t] = IF t = "sim" THEN "systems" ELSE "pass1"]
    /\ UNCHANGED << serverVars, now, http, requests, battleVars, queueVars, running,
                    ticks, iter, save_lock, last_save_ts, last_cleanup_day,
                    persistence_loop, bridge, save_log >>

\* the two calls of world.process() of the fleet route
FleetPass(ok) ==
    /\ run_pc["req"] \in {"pass1", "pass2"}
    /\ WorldPass(ok)
    /\ run_pc' = [run_pc EXCEPT !["req"] = IF @ = "pass1" THEN "pass2" ELSE "idle"]
    /\ UNCHANGED << running, ticks, iter, save_lock, last_save_ts, last_cleanup_day,
                    persistence_loop, bridge, save_log >>

\* GET /player/{user_id}/fleet by a client whose last request is answered
GetFleetRoute == run_pc["req"] = "idle" /\ GetPlayerFleet

InitDrain ==
    /\ InitRun
    /\ persistence_loop = "running"

\* the steps of the simulation thread
DrainSimStep ==
    \/ LoopWhileOn
    \/ DrainBegin
    \/ Dequeue("sim")
    \/ ExecuteCommand("sim")
    \/ DrainEnd("sim")
    \/ LoopSystems
    \/ \E ok \in CreateColonyResults : LoopPass(ok)
    \/ LoopPassEnd
    \/ LoopSaveCheck
    \/ \E answer \in BridgeAnswers : LoopCleanup(answer)
    \/ SaveAcquire("sim")
    \/ SaveWrite("sim")
    \/ SaveFinally("sim")

\* the steps of a request that has begun
DrainReqStep ==
    \/ Dequeue("req")
    \/ ExecuteCommand("req")
    \/ DrainEnd("req")
    \/ \E ok \in CreateColonyResults : FleetPass(ok)

NextDrain ==
    \/ StartGameLoop
    \/ DrainSimStep
    \/ DrainReqStep
    \/ GetFleetRoute
    \/ \E u \in CommandUsers : CancelBuildQueueRoute(u)
    \/ \E u \in Users : RegisterDb(u)

\* the lifespan starts the loop and both threads run whenever they can; no
\* request has to arrive
SpecDrain ==
    /\ InitDrain /\ [][NextDrain]_vars
    /\ WF_vars(StartGameLoop) /\ WF_vars(DrainSimStep) /\ WF_vars(DrainReqStep)

ExecutedTimes(id) == Cardinality({k \in DOMAIN executed : executed[k] = id})
WaitingTimes(id) == Cardinality({k \in DOMAIN command_queue : command_queue[k].id = id})
InHandTimes(id) == Cardinality({t \in Threads : pc[t] = "exec" /\ local[t].command.id = id})

\* every queued command is at any time in one place: waiting in the queue,
\* in the hands of one thread, or executed once
CommandsConserved ==
    \A id \in DrainCmdIds :
        ExecutedTimes(id) + WaitingTimes(id) + InHandTimes(id)
            = IF id < next_cmd_id THEN 1 ELSE 0

\* C39: every command placed on the queue is executed exactly once: it is
\* never dropped or run twice, whichever thread drains the queue, and it is
\* executed in the end.
C39_EveryCommandExecutedOnce ==
    /\ []CommandsConserved
    /\ \A id \in DrainCmdIds : (id < next_cmd_id) ~> (ExecutedTimes(id) = 1)

====
